---- MODULE Spec2Model ----
(***************************************************************************)
(* Temperature pipeline of dashboard_iot_backend:                          *)
(*   MQTTService  (ingestion adapter, SaveQueue)                           *)
(*   TemperatureService (minute reducer, window aggregator, exports,       *)
(*                       cleanup)                                          *)
(*   the relational store behind db.withRetry.                             *)
(* Time is the wall clock in seconds.  Temperatures are integers in        *)
(* hundredths of a degree (2500 is 25.00), so that the two-decimal         *)
(* rounding of the code is integer arithmetic.  Every persistence call is  *)
(* a suspension point: the handler that issued it is parked in `task` and  *)
(* resumed by a later step, so that other callbacks interleave exactly at  *)
(* the awaits of the code.                                                 *)
(***************************************************************************)
EXTENDS Integers, Sequences, FiniteSets, TLC

VARIABLES
  now,                    \* wall clock, seconds
  tz,                     \* offset of the process time zone from UTC, hours
  adapter,                \* which MQTTService iteration is deployed
  bufferData,             \* TemperatureService.state.bufferData
  currentMinuteStartTime, \* TemperatureService.state.currentMinuteStartTime
  lastSavedMinute,        \* TemperatureService.state.lastSavedMinute
  lastProcessedSlot,      \* TemperatureService.state.lastProcessedSlot
  isProcessing,           \* TemperatureService.state.isProcessing
  lastTemperature,        \* MQTTService.lastTemperature
  lastDataTime,           \* MQTTService.lastDataTime
  saveQueue,              \* MQTTService.saveQueue
  isProcessingQueue,      \* MQTTService.isProcessingQueue
  rawRows,                \* table temperatureBuffer
  aggs,                   \* table temperatureAggregate
  dailyRecs,              \* table dailyTemperatureBackup
  batchRecs,              \* table sixHourExport
  files,                  \* export files on disk
  task,                   \* the suspended handlers, one slot per handler
  nextId,                 \* autoincrement counters and the reading counter
  budget,                 \* what the environment may still do: messages,
                          \* clock advances, failing persistence calls
  hist,                   \* history: what the last step of each job did
  gateway,                \* one call of db.withRetry: its locals and position
  link,                   \* MQTTService connection: isConnected,
                          \* reconnectAttempts, the client, pending timeouts
  sched,                  \* the timers of both services and the position of
                          \* gracefulShutdown
  calc                    \* the last call of calculateStats: its argument and
                          \* what it returned

vars == <<now, tz, adapter, bufferData, currentMinuteStartTime,
          lastSavedMinute, lastProcessedSlot, isProcessing, lastTemperature,
          lastDataTime, saveQueue, isProcessingQueue, rawRows, aggs,
          dailyRecs, batchRecs, files, task, nextId, budget, hist,
          gateway, link, sched, calc>>

\* the state of the components around the pipeline
svcVars == <<gateway, link, sched, calc>>

\* the state of the pipeline itself
coreVars == <<now, tz, adapter, bufferData, currentMinuteStartTime,
              lastSavedMinute, lastProcessedSlot, isProcessing,
              lastTemperature, lastDataTime, saveQueue, isProcessingQueue,
              rawRows, aggs, dailyRecs, batchRecs, files, task, nextId,
              budget, hist>>

----------------------------------------------------------------------------
(* Bounds of the model *)

MaxReadings == 3   \* messages in the reducer specification
MaxTicks    == 2   \* clock advances in the reducer specification
MaxFailures == 1   \* persistence calls that fail after their retries
AggReadings == 2   \* messages in the aggregator specification
AggTicks    == 1   \* clock advances in the aggregator specification
BurstReadings == 2 \* messages in the burst specification
BurstTicks  == 1   \* clock advances in the burst specification
QueueReadings == 2 \* messages in the queue specification
QueueTicks  == 1   \* clock advances in the queue specification
MaxDrains   == 1   \* runs of the queue processor
ExportTicks == 1   \* clock advances in the export specification
LifecycleReadings == 1 \* messages in the lifecycle specification
GatewayCalls == 2      \* calls of withRetry
MaxRetryArg  == 4      \* largest retries argument of withRetry
MaxExtraAttempts == 2  \* "reconnect" events followed beyond the maximum
MaxOrphans   == 2      \* replaced clients that are counted
ShutdownReadings == 2  \* messages in the shutdown specification
ShutdownTicks == 1     \* clock advances in the shutdown specification
TimersReadings == 1    \* messages in the timers specification
TimersTicks == 2       \* clock advances in the timers specification
SixHourReadings == 1   \* messages in the six-hour specification
JobsTicks  == 2        \* clock advances in the jobs specification

----------------------------------------------------------------------------
(* Program constants *)

requiredAggregateCount == 10
maxBufferSize          == 1000
SaveQueueLimit         == 100
QueueBatchSize         == 10
SixHourExpectedCount   == 36
RetentionDays          == 7
ExportRecordDays       == 30
DefaultRetries         == 3
maxReconnectAttempts   == 10
HandlerMinTemp         == -5000
HandlerMaxTemp         == 15000
DirectMaxTemp          == 100000
ServiceMaxTemp         == 50000

NoTime == -1            \* null / undefined Date
NoSlot == <<>>          \* null lastProcessedSlot

Day    == 86400
Hour   == 3600
Minute == 60

----------------------------------------------------------------------------
(* Date arithmetic of the code *)

Local(t) == t + tz * Hour

\* Date.prototype.getHours / getMinutes, local time
getHours(t)   == (Local(t) \div Hour) % 24
getMinutes(t) == (Local(t) \div Minute) % 60

\* new Date(y, m, d) of a Date: the local calendar day
LocalDay(t) == Local(t) \div Day

\* toISOString().split("T")[0]: the UTC calendar day
IsoDay(t) == t \div Day

\* formatMinute: the ISO string cut after the minutes
formatMinute(t) == t \div Minute

\* setSeconds(0, 0)
StartOfMinute(t) == (t \div Minute) * Minute

\* a label whose end is not carried into the next hour
SlotNoWrap(t) ==
  <<getHours(t), (getMinutes(t) \div 10) * 10,
    getHours(t), (getMinutes(t) \div 10) * 10 + 10>>

\* generateTimeSlot: "HH:MM-HH:MM" as <<HH, MM, HH, MM>>
generateTimeSlot(t) ==
  LET minutes   == getMinutes(t)
      slotStart == (minutes \div 10) * 10
      slotEnd   == slotStart + 10
      hour      == getHours(t)
  IN  IF slotEnd = 60
        THEN <<hour, slotStart, (hour + 1) % 24, 0>>
        ELSE <<hour, slotStart, hour, slotEnd>>

\* generateSixHourBatch: "<iso date>_<bucket>" as <<iso day, first hour>>
generateSixHourBatch(t) ==
  LET hours == getHours(t)
  IN  <<IsoDay(t),
        IF hours < 6 THEN 0 ELSE IF hours < 12 THEN 6
        ELSE IF hours < 18 THEN 12 ELSE 18>>

\* Date.prototype.setHours(h, 0, 0, 0) on the instant t (local calendar)
SetHours(t, h) == LocalDay(t) * Day - tz * Hour + h * Hour

\* getSixHourTimeRange: new Date(dateStr) is UTC midnight of the batch day
getSixHourTimeRange(batch) ==
  [startTime |-> SetHours(batch[1] * Day, batch[2]),
   endTime   |-> SetHours(batch[1] * Day, batch[2] + 6)]

\* getSlotTimeRange
getSlotTimeRange(t) ==
  [startTime |-> StartOfMinute(t) - 10 * Minute, endTime |-> StartOfMinute(t)]

\* Math.round(a / b) for b > 0
RoundDiv(a, b) == (2 * a + b) \div (2 * b)

\* reduce((sum, x) => sum + x, 0) over s[lo..hi], summed by halves
RECURSIVE SumRange(_, _, _)
SumRange(s, lo, hi) ==
  IF lo > hi THEN 0
  ELSE IF lo = hi THEN s[lo]
  ELSE LET mid == (lo + hi) \div 2
       IN  SumRange(s, lo, mid) + SumRange(s, mid + 1, hi)

SumSeq(s) == SumRange(s, 1, Len(s))

SeqRange(s) == {s[i] : i \in 1..Len(s)}

\* mean of the buffered temperatures, rounded to two decimals
MinuteAverage(buf) ==
  RoundDiv(SumSeq([i \in 1..Len(buf) |-> buf[i].temperature]), Len(buf))

----------------------------------------------------------------------------
(* Inputs *)

\* MQTT payloads after parseFloat: a number in hundredths, or NaN
Payloads == {[num |-> TRUE,  v |-> 2000], [num |-> TRUE,  v |-> 2500],
             [num |-> TRUE,  v |-> 20000], [num |-> FALSE, v |-> 0]}

TimeZones == {0, 7}

Adapters == {"plain", "queue", "dedup"}

\* the handlers that can be suspended at an await, one invocation of each
RecvTasks  == {"recv"}
ChainTasks == RecvTasks \cup {"timer"}
SixTasks   == ChainTasks \cup {"six", "sixForce"}
TaskIds    == SixTasks \cup {"flush", "manualAgg", "daily", "cleanup",
                             "drain"}

NoDP == [temperature |-> 0, timestamp |-> NoTime, minute |-> NoTime, rid |-> 0]

IdleTask ==
  [pc |-> "idle", t0 |-> NoTime, dp |-> NoDP, avg |-> 0, n |-> 0,
   src |-> {}, mins |-> {}, ts |-> NoTime, batch |-> <<>>, first |-> NoTime,
   found |-> {}, key |-> <<>>, paths |-> {}, count |-> 0]

\* outcomes of a persistence call after db.withRetry has used its attempts
DbOutcomes == IF budget.fails > 0 THEN {TRUE, FALSE} ELSE {TRUE}

Fail == budget' = [budget EXCEPT !.fails = @ - 1]
NoFail == budget' = budget

----------------------------------------------------------------------------
(* The store *)

\* a store that never finds a (date, slot) taken
AggregateKeyFree(date, slot) == FALSE

\* the unique index agregasi_suhu(tanggal, slot_waktu)
AggregateKeyTaken(date, slot) ==
  \E a \in aggs : a.date = date /\ a.timeSlot = slot

\* the unique index backup_harian(tanggal)
DailyKeyTaken(date) == \E r \in dailyRecs : r.date = date

\* the unique key batchId of sixHourExport, by which findUnique reads it
BatchKeyTaken(key) == \E r \in batchRecs : r.batchId = key

\* orderBy: { timestamp: "asc" }, rows of equal timestamp in insertion order
RowBefore(r, q) ==
  r.timestamp < q.timestamp \/ (r.timestamp = q.timestamp /\ r.id < q.id)

RECURSIVE SortRows(_)
SortRows(S) ==
  IF S = {} THEN <<>>
  ELSE LET r == CHOOSE x \in S : \A y \in S \ {x} : RowBefore(x, y)
       IN  <<r>> \o SortRows(S \ {r})

Take(s, k) == SubSeq(s, 1, IF Len(s) < k THEN Len(s) ELSE k)

Unprocessed == {r \in rawRows : ~r.isProcessed}

RowIds(s) == {s[i].id : i \in 1..Len(s)}

----------------------------------------------------------------------------
(* Where a rejected promise ends                                           *)

\* the handlers that setInterval / setTimeout start
TimerJobs == {"timer", "six", "cleanup", "daily", "drain"}

\* process.on("unhandledRejection"): process.exit(1)
ProcessExit(t) ==
  [sched EXCEPT !.phase = "stopped", !.buffer = FALSE,
                !.sixHourExport = FALSE, !.cleanup = FALSE, !.export = FALSE,
                !.midnight = FALSE, !.queue = FALSE]

\* the promise of handler t rejects.  A timer callback ends in
\* .catch(this.handleError.bind(this)), the message handler and the routes
\* in a catch block: the error is logged, timers and process go on
Caught(t) == sched

\* a step of handler t ends: its promise is pending, resolved or rejected
Settle(t, threw) ==
  /\ sched' = IF threw THEN Caught(t) ELSE sched
  /\ UNCHANGED <<gateway, link, calc>>

----------------------------------------------------------------------------
(* Minute Reducer: receiveTemperatureData, processMinuteBufferIfNeeded,    *)
(* processCurrentMinuteBuffer                                              *)

\* processCurrentMinuteBuffer up to its first await (the create call):
\* the average is taken from the buffer as it is now
FlushStart(t, t0, dp, cmst) ==
  [IdleTask EXCEPT
     !.pc   = "pcmb_create",
     !.t0   = t0,
     !.dp   = dp,
     !.avg  = MinuteAverage(bufferData),
     !.n    = Len(bufferData),
     !.src  = {bufferData[i].rid : i \in 1..Len(bufferData)},
     !.mins = {bufferData[i].minute : i \in 1..Len(bufferData)},
     !.ts   = cmst]

\* the caller of processCurrentMinuteBuffer resumes after a normal return
ChainReturn(t) ==
  /\ task' = [task EXCEPT ![t] = IdleTask]
  /\ IF t \in RecvTasks
       THEN \* receiveTemperatureData lines 112-125: reset, then push
            /\ bufferData' = <<task[t].dp>>
            /\ UNCHANGED currentMinuteStartTime
       ELSE \* processMinuteBufferIfNeeded lines 79-83
            /\ bufferData' = <<>>
            /\ currentMinuteStartTime' = StartOfMinute(task[t].t0)

\* a failed flush that would empty the buffer
ChainDrop(t) ==
  /\ task' = [task EXCEPT ![t] = IdleTask]
  /\ bufferData' = <<>>
  /\ UNCHANGED currentMinuteStartTime

\* processCurrentMinuteBuffer rethrows: receiveTemperatureData rethrows to
\* processTemperatureData, which logs; the timer's promise is caught
ChainThrow(t) ==
  /\ task' = [task EXCEPT ![t] = IdleTask]
  /\ UNCHANGED <<bufferData, currentMinuteStartTime>>

ChainContinue(t, rec) ==
  /\ task' = [task EXCEPT ![t] = rec]
  /\ UNCHANGED <<bufferData, currentMinuteStartTime>>

\* the validation of receiveTemperatureData: its throw is caught by its own
\* catch block, which logs and throws the error again
InvalidTemperature(temp) == temp < HandlerMinTemp \/ temp > ServiceMaxTemp

\* receiveTemperatureData(temp) called at time `now`
ReceiveTemperatureData(t, temp, rid) ==
  LET currentMinute == formatMinute(now)
      dp == [temperature |-> temp, timestamp |-> now,
             minute |-> currentMinute, rid |-> rid]
  IN  IF InvalidTemperature(temp)
        THEN UNCHANGED <<bufferData, currentMinuteStartTime, task>>
        ELSE IF currentMinuteStartTime = NoTime
                \/ currentMinute # formatMinute(currentMinuteStartTime)
          THEN /\ currentMinuteStartTime' = StartOfMinute(now)
               /\ IF Len(bufferData) > 0
                    THEN /\ task' = [task EXCEPT ![t] =
                                FlushStart(t, now, dp, StartOfMinute(now))]
                         /\ UNCHANGED bufferData
                    ELSE /\ bufferData' = <<dp>>
                         /\ UNCHANGED task
          ELSE /\ bufferData' = Append(bufferData, dp)
               /\ UNCHANGED <<currentMinuteStartTime, task>>

----------------------------------------------------------------------------
(* Ingestion adapter: the "message" handler and addToSaveQueue             *)

QueueEntry(temp) == [temperature |-> temp, timestamp |-> now]

\* a queue that refuses the new entry once it is full
AddToSaveQueueKeepOldest(q, temp) ==
  IF Len(q) >= SaveQueueLimit THEN q ELSE Append(q, QueueEntry(temp))

\* part_008 lines 126-144: push, then drop the oldest entry above the limit
AddToSaveQueuePlain(q, temp) ==
  LET pushed == Append(q, QueueEntry(temp))
  IN  IF Len(pushed) > SaveQueueLimit THEN Tail(pushed) ELSE pushed

\* part_008 lines 576-607: the same, after skipping a reading equal to the
\* last queued one and less than 1000 ms younger
AddToSaveQueueDedup(q, temp) ==
  IF /\ Len(q) > 0
     /\ now - q[Len(q)].timestamp < 1
     /\ q[Len(q)].timestamp - now < 1
     /\ q[Len(q)].temperature = temp
    THEN q
    ELSE AddToSaveQueuePlain(q, temp)

addToSaveQueue(q, temp) ==
  IF adapter = "queue" THEN AddToSaveQueuePlain(q, temp)
  ELSE IF adapter = "dedup" THEN AddToSaveQueueDedup(q, temp)
  ELSE q

\* a handler that only tests for a number
HandlerAcceptsNumbers(p) == p.num

\* the range test of the message handler
HandlerAccepts(p) ==
  p.num /\ p.v >= HandlerMinTemp /\ p.v <= HandlerMaxTemp

\* client.on("message"): one delivered payload
MqttMessage(t, p) ==
  /\ t \in RecvTasks
  /\ task[t].pc = "idle"
  /\ budget.msgs > 0
  /\ budget' = [budget EXCEPT !.msgs = @ - 1]
  /\ nextId' = [nextId EXCEPT !.reading = @ + 1]
  /\ hist' = [hist EXCEPT !.lastMsg = [p |-> p, at |-> now],
                          !.threw = HandlerAccepts(p) /\ InvalidTemperature(p.v)]
  /\ IF HandlerAccepts(p)
       THEN /\ lastTemperature' = p.v
            /\ lastDataTime' = IF adapter = "plain" THEN lastDataTime ELSE now
            /\ saveQueue' = addToSaveQueue(saveQueue, p.v)
            /\ ReceiveTemperatureData(t, p.v, nextId.reading)
       ELSE UNCHANGED <<lastTemperature, lastDataTime, saveQueue, bufferData,
                        currentMinuteStartTime, task>>
  /\ UNCHANGED <<now, tz, adapter, lastSavedMinute, lastProcessedSlot,
                 isProcessing, isProcessingQueue, rawRows, aggs, dailyRecs,
                 batchRecs, files>>
  /\ UNCHANGED svcVars

\* the range test of the message handler of the first server script
DirectAccepts(p) ==
  p.num /\ p.v >= HandlerMinTemp /\ p.v <= DirectMaxTemp

\* client.on("message") of the first server script: the reading goes
\* straight to receiveTemperatureData; an error it throws is caught and logged
DirectMessage(t, p) ==
  /\ t \in RecvTasks
  /\ task[t].pc = "idle"
  /\ budget.msgs > 0
  /\ budget' = [budget EXCEPT !.msgs = @ - 1]
  /\ nextId' = [nextId EXCEPT !.reading = @ + 1]
  /\ hist' = [hist EXCEPT !.lastMsg = [p |-> p, at |-> now],
                          !.threw = DirectAccepts(p) /\ InvalidTemperature(p.v)]
  /\ IF DirectAccepts(p)
       THEN /\ lastTemperature' = p.v
            /\ ReceiveTemperatureData(t, p.v, nextId.reading)
       ELSE UNCHANGED <<lastTemperature, bufferData, currentMinuteStartTime,
                        task>>
  /\ UNCHANGED <<now, tz, adapter, lastDataTime, saveQueue, lastSavedMinute,
                 lastProcessedSlot, isProcessing, isProcessingQueue, rawRows,
                 aggs, dailyRecs, batchRecs, files>>
  /\ UNCHANGED svcVars

\* the buffer timer: processMinuteBufferIfNeeded up to its await
TimerFire ==
  /\ sched.buffer
  /\ task["timer"].pc = "idle"
  /\ currentMinuteStartTime # NoTime
  /\ formatMinute(now) # formatMinute(currentMinuteStartTime)
  /\ Len(bufferData) > 0
  /\ task' = [task EXCEPT !["timer"] =
                FlushStart("timer", now, NoDP, currentMinuteStartTime)]
  /\ UNCHANGED <<now, tz, adapter, bufferData, currentMinuteStartTime,
                 lastSavedMinute, lastProcessedSlot, isProcessing,
                 lastTemperature, lastDataTime, saveQueue, isProcessingQueue,
                 rawRows, aggs, dailyRecs, batchRecs, files, nextId,
                 budget, hist>>
  /\ UNCHANGED svcVars

\* the row written by the Minute Reducer
ReducerRow(t) ==
  [id |-> nextId.raw, temperature |-> task[t].avg,
   timestamp |-> task[t].ts, isProcessed |-> FALSE]

SampleLog(id, by, mins, src) ==
  [id |-> id, by |-> by, mins |-> mins, src |-> src]

\* processCurrentMinuteBuffer resumes from temperatureBuffer.create and
\* enters checkForAggregation up to its findMany
PcmbCreate(t) ==
  /\ t \in ChainTasks
  /\ task[t].pc = "pcmb_create"
  /\ \E ok \in DbOutcomes :
       IF ok
         THEN /\ rawRows' = rawRows \cup {ReducerRow(t)}
              /\ nextId' = [nextId EXCEPT !.raw = @ + 1]
              /\ hist' = [hist EXCEPT !.samples = @ \cup
                   {SampleLog(nextId.raw, "reducer", task[t].mins,
                              task[t].src)}]
              /\ lastSavedMinute' = formatMinute(currentMinuteStartTime)
              /\ ChainContinue(t, [task[t] EXCEPT !.pc = "cfa_find"])
              /\ NoFail
         ELSE /\ ChainThrow(t)
              /\ Fail
              /\ UNCHANGED <<rawRows, nextId, hist, lastSavedMinute>>
  /\ UNCHANGED <<now, tz, adapter, lastProcessedSlot, isProcessing,
                 lastTemperature, lastDataTime, saveQueue, isProcessingQueue,
                 aggs, dailyRecs, batchRecs, files>>
  /\ Settle(t, budget'.fails < budget.fails)

----------------------------------------------------------------------------
(* Window Aggregator: checkForAggregation, performAggregation,             *)
(* checkForSixHourExport as run at the end of a flush                      *)

envVars    == <<now, tz, adapter>>
mqttVars   == <<lastTemperature, lastDataTime, saveQueue, isProcessingQueue>>
exportVars == <<dailyRecs, batchRecs, files>>

\* the aggregate row of performAggregation
NewAggregate(id, first, rows, by) ==
  [id |-> id, date |-> LocalDay(first), timeSlot |-> generateTimeSlot(first),
   sixHourBatch |-> generateSixHourBatch(first), sampleCount |-> Len(rows),
   isExported |-> FALSE, isSixHourExported |-> FALSE,
   consumed |-> RowIds(rows), by |-> by]

\* what a transaction that creates an aggregate leaves in the history: the
\* aggregate, and the stored rows its deleteMany / updateMany matched
Consumption(agg, ids) ==
  [agg |-> agg.id, sampleCount |-> agg.sampleCount,
   matched |-> {r.id : r \in rawRows} \cap ids]

\* temperatureBuffer.deleteMany({ id: { in: ... } })
DeleteRows(ids) == {r \in rawRows : r.id \notin ids}

\* temperatureBuffer.updateMany({ id: { in: ... } }, { isProcessed: true })
MarkRows(ids) ==
  {IF r.id \in ids THEN [r EXCEPT !.isProcessed = TRUE] ELSE r : r \in rawRows}

\* checkForAggregation resumes from findMany (lines 201-236)
CfaFind(t) ==
  /\ t \in ChainTasks
  /\ task[t].pc = "cfa_find"
  /\ \E ok \in DbOutcomes :
       IF ok
         THEN LET unprocessedData == SortRows(Unprocessed)
              IN  /\ IF Len(unprocessedData) >= requiredAggregateCount
                       THEN ChainContinue(t, [task[t] EXCEPT
                              !.pc = "cfa_lookup",
                              !.batch = Take(unprocessedData,
                                             requiredAggregateCount),
                              !.first = unprocessedData[1].timestamp])
                       ELSE ChainReturn(t)
                  /\ NoFail
         ELSE ChainReturn(t) /\ Fail
  /\ UNCHANGED <<envVars, mqttVars, exportVars, lastSavedMinute,
                 lastProcessedSlot, isProcessing, rawRows, aggs, nextId, hist>>
  /\ UNCHANGED svcVars

\* checkForAggregation resumes from findFirst (lines 238-264)
CfaLookup(t) ==
  /\ t \in ChainTasks
  /\ task[t].pc = "cfa_lookup"
  /\ \E ok \in DbOutcomes :
       IF ok
         THEN /\ ChainContinue(t, [task[t] EXCEPT !.pc =
                   IF AggregateKeyTaken(LocalDay(task[t].first),
                                        generateTimeSlot(task[t].first))
                     THEN "cfa_delete" ELSE "pa_lookup"])
              /\ NoFail
         ELSE ChainReturn(t) /\ Fail
  /\ UNCHANGED <<envVars, mqttVars, exportVars, lastSavedMinute,
                 lastProcessedSlot, isProcessing, rawRows, aggs, nextId, hist>>
  /\ UNCHANGED svcVars

\* the deleteMany of a duplicate window, in checkForAggregation (lines
\* 246-252) and in performAggregation (lines 314-323)
DuplicateDelete(t) ==
  /\ t \in ChainTasks
  /\ task[t].pc \in {"cfa_delete", "pa_delete"}
  /\ \E ok \in DbOutcomes :
       IF ok
         THEN rawRows' = DeleteRows(RowIds(task[t].batch)) /\ NoFail
         ELSE UNCHANGED rawRows /\ Fail
  /\ ChainReturn(t)
  /\ UNCHANGED <<envVars, mqttVars, exportVars, lastSavedMinute,
                 lastProcessedSlot, isProcessing, aggs, nextId, hist>>
  /\ UNCHANGED svcVars

\* performAggregation resumes from findFirst (lines 297-329)
PaLookup(t) ==
  /\ t \in ChainTasks
  /\ task[t].pc = "pa_lookup"
  /\ \E ok \in DbOutcomes :
       IF ok
         THEN /\ ChainContinue(t, [task[t] EXCEPT !.pc =
                   IF AggregateKeyTaken(LocalDay(task[t].first),
                                        generateTimeSlot(task[t].first))
                     THEN "pa_delete" ELSE "pa_tx"])
              /\ NoFail
         ELSE ChainReturn(t) /\ Fail
  /\ UNCHANGED <<envVars, mqttVars, exportVars, lastSavedMinute,
                 lastProcessedSlot, isProcessing, rawRows, aggs, nextId, hist>>
  /\ UNCHANGED svcVars

\* performAggregation resumes from the transaction (lines 331-366): the
\* create fails on the unique index when the slot exists by now
PaTx(t) ==
  /\ t \in ChainTasks
  /\ task[t].pc = "pa_tx"
  /\ \E ok \in DbOutcomes :
       LET agg == NewAggregate(nextId.agg, task[t].first, task[t].batch, t)
       IN  IF ok /\ ~AggregateKeyTaken(agg.date, agg.timeSlot)
             THEN /\ aggs' = aggs \cup {agg}
                  /\ rawRows' = DeleteRows(RowIds(task[t].batch))
                  /\ nextId' = [nextId EXCEPT !.agg = @ + 1]
                  /\ hist' = [hist EXCEPT
                       !.aggLog = @ \cup {agg},
                       !.txLog = @ \cup
                         {Consumption(agg, RowIds(task[t].batch))}]
                  /\ lastProcessedSlot' = agg.timeSlot
                  /\ ChainContinue(t, [task[t] EXCEPT
                       !.pc = "cfshe_count",
                       !.key = generateSixHourBatch(now)])
                  /\ NoFail
             ELSE /\ ChainReturn(t)
                  /\ IF ok THEN NoFail ELSE Fail
                  /\ UNCHANGED <<aggs, rawRows, nextId, hist,
                                 lastProcessedSlot>>
  /\ UNCHANGED <<envVars, mqttVars, exportVars, lastSavedMinute,
                 isProcessing>>
  /\ UNCHANGED svcVars

----------------------------------------------------------------------------
(* Six-hour batch export: checkForSixHourExport, exportSixHourData         *)

\* exportSixHourData returns or throws.  Its callers (checkForSixHourExport,
\* the route) catch, so the caller continues the same way in both cases.
SixReturn(t) ==
  IF t \in ChainTasks
    THEN ChainReturn(t)
    ELSE /\ task' = [task EXCEPT ![t] = IdleTask]
         /\ UNCHANGED <<bufferData, currentMinuteStartTime>>

SixContinue(t, rec) ==
  /\ task' = [task EXCEPT ![t] = rec]
  /\ UNCHANGED <<bufferData, currentMinuteStartTime>>

PendingInBatch(batch) ==
  {a \in aggs : a.sixHourBatch = batch /\ ~a.isSixHourExported}

ExportPath(kind, ext, key) == <<kind, ext, key>>

\* a write that leaves no file behind
WriteNothing(fs, path) == fs

\* fs.writeFile / workbook.xlsx.writeFile: the file exists afterwards
WriteFile(fs, path) == fs \cup {path}

\* the 30-minute timer: checkForSixHourExport up to its count
SixTimerFire ==
  /\ sched.sixHourExport
  /\ task["six"].pc = "idle"
  /\ task' = [task EXCEPT !["six"] =
       [IdleTask EXCEPT !.pc = "cfshe_count",
                        !.key = generateSixHourBatch(now)]]
  /\ UNCHANGED <<envVars, mqttVars, exportVars, bufferData,
                 currentMinuteStartTime, lastSavedMinute, lastProcessedSlot,
                 isProcessing, rawRows, aggs, nextId, budget, hist>>
  /\ UNCHANGED svcVars

\* POST /six-hour/force-export: exportSixHourData up to its findUnique
SixForce ==
  /\ task["sixForce"].pc = "idle"
  /\ task' = [task EXCEPT !["sixForce"] =
       [IdleTask EXCEPT !.pc = "eshd_lookup", !.t0 = now,
                        !.key = generateSixHourBatch(now)]]
  /\ UNCHANGED <<envVars, mqttVars, exportVars, bufferData,
                 currentMinuteStartTime, lastSavedMinute, lastProcessedSlot,
                 isProcessing, rawRows, aggs, nextId, budget, hist>>
  /\ UNCHANGED svcVars

\* checkForSixHourExport resumes from count (lines 386-398)
CfsheCount(t) ==
  /\ t \in ChainTasks \cup {"six"}
  /\ task[t].pc = "cfshe_count"
  /\ \E ok \in DbOutcomes :
       IF ok
         THEN /\ IF Cardinality(PendingInBatch(task[t].key))
                      >= SixHourExpectedCount
                   THEN SixContinue(t, [task[t] EXCEPT
                          !.pc = "eshd_lookup", !.t0 = now,
                          !.key = generateSixHourBatch(now)])
                   ELSE SixReturn(t)
              /\ NoFail
         ELSE SixReturn(t) /\ Fail
  /\ UNCHANGED <<envVars, mqttVars, exportVars, lastSavedMinute,
                 lastProcessedSlot, isProcessing, rawRows, aggs, nextId, hist>>
  /\ UNCHANGED svcVars

\* exportSixHourData resumes from findUnique (lines 685-694)
EshdLookup(t) ==
  /\ t \in SixTasks
  /\ task[t].pc = "eshd_lookup"
  /\ \E ok \in DbOutcomes :
       IF ok
         THEN /\ IF \E r \in batchRecs : r.batchId = task[t].key
                   THEN SixReturn(t)
                   ELSE SixContinue(t, [task[t] EXCEPT !.pc = "eshd_find"])
              /\ NoFail
         ELSE SixReturn(t) /\ Fail
  /\ UNCHANGED <<envVars, mqttVars, exportVars, lastSavedMinute,
                 lastProcessedSlot, isProcessing, rawRows, aggs, nextId, hist>>
  /\ UNCHANGED svcVars

\* exportSixHourData resumes from findMany (lines 697-724)
EshdFind(t) ==
  /\ t \in SixTasks
  /\ task[t].pc = "eshd_find"
  /\ \E ok \in DbOutcomes :
       IF ok
         THEN LET aggregateData == PendingInBatch(task[t].key)
              IN  /\ IF \/ aggregateData = {}
                        \/ task[t].t0 < getSixHourTimeRange(task[t].key).endTime
                       THEN SixReturn(t)
                       ELSE SixContinue(t, [task[t] EXCEPT
                              !.pc = "eshd_csv", !.found = aggregateData])
                  /\ NoFail
         ELSE SixReturn(t) /\ Fail
  /\ UNCHANGED <<envVars, mqttVars, exportVars, lastSavedMinute,
                 lastProcessedSlot, isProcessing, rawRows, aggs, nextId, hist>>
  /\ UNCHANGED svcVars

\* mkdir and exportSixHourToCSV, then exportSixHourToExcel (lines 723-736)
EshdWrite(t) ==
  /\ t \in SixTasks
  /\ task[t].pc \in {"eshd_csv", "eshd_excel"}
  /\ \E ok \in DbOutcomes :
       IF ok
         THEN LET ext == IF task[t].pc = "eshd_csv" THEN "csv" ELSE "xlsx"
                  path == ExportPath("six", ext, task[t].key)
              IN  /\ files' = WriteFile(files, path)
                  /\ SixContinue(t, [task[t] EXCEPT
                       !.pc = IF ext = "csv" THEN "eshd_excel" ELSE "eshd_tx",
                       !.paths = @ \cup {path}])
                  /\ NoFail
         ELSE SixReturn(t) /\ Fail /\ UNCHANGED files
  /\ UNCHANGED <<envVars, mqttVars, dailyRecs, batchRecs, lastSavedMinute,
                 lastProcessedSlot, isProcessing, rawRows, aggs, nextId, hist>>
  /\ UNCHANGED svcVars

\* temperatureAggregate.updateMany({ id in }, { isSixHourExported: true })
MarkBatchExported(ids) ==
  {IF a.id \in ids THEN [a EXCEPT !.isSixHourExported = TRUE] ELSE a
     : a \in aggs}

\* a transaction whose rejection goes unnoticed
TxUnchecked(ok, key) == TRUE

\* await db.withRetry($transaction) returns instead of throwing: the store
\* answered and sixHourExport.create met no record of the same batch id
TxCommitted(ok, key) == ok /\ ~BatchKeyTaken(key)

\* exportSixHourData resumes from the transaction (lines 743-791); what
\* follows it, the notification included, runs only when it returns
EshdTx(t) ==
  /\ t \in SixTasks
  /\ task[t].pc = "eshd_tx"
  /\ \E ok \in DbOutcomes :
       IF TxCommitted(ok, task[t].key)
         THEN /\ batchRecs' = batchRecs \cup
                   {[batchId |-> task[t].key, paths |-> task[t].paths,
                     by |-> t,
                     totalRecords |-> Cardinality(task[t].found),
                     createdAt |-> now]}
              /\ aggs' = MarkBatchExported({a.id : a \in task[t].found})
              /\ hist' = [hist EXCEPT !.notified = Append(@, task[t].key)]
              /\ NoFail
         ELSE /\ UNCHANGED <<batchRecs, aggs, hist>>
              /\ IF ok THEN NoFail ELSE Fail
  /\ SixReturn(t)
  /\ UNCHANGED <<envVars, mqttVars, dailyRecs, files, lastSavedMinute,
                 lastProcessedSlot, isProcessing, rawRows, nextId>>
  /\ UNCHANGED svcVars

----------------------------------------------------------------------------
(* Daily export: exportDailyData                                           *)

\* the instant stored in temperatureAggregate.date for a local day
DateInstant(d) == d * Day - tz * Hour

\* yesterday: setDate(getDate() - 1), setHours(0, 0, 0, 0)
Yesterday(t) == LocalDay(t) - 1

\* dateString: the ISO day of local midnight of yesterday
DailyKey(t) == IsoDay(DateInstant(Yesterday(t)))

\* findMany({ date: { gte: yesterday, lt: yesterday + 24 h },
\*            isExported: false })
UnexportedOn(d) == {a \in aggs : a.date = d /\ ~a.isExported}

\* an aggregate row leaving the store, as the deleting call saw it
Removal(a, by, at) == [agg |-> a, by |-> by, at |-> at]

JobReturn(t) ==
  /\ task' = [task EXCEPT ![t] = IdleTask]

JobContinue(t, rec) ==
  /\ task' = [task EXCEPT ![t] = rec]

\* a query result that always has rows
SomethingToExport(S) == FALSE

\* aggregateData.length === 0 (line 991)
NothingToExport(S) == S = {}

\* exportDailyData up to its findMany
ExportDailyDataStart ==
  /\ task["daily"].pc = "idle"
  /\ JobContinue("daily", [IdleTask EXCEPT
       !.pc = "ed_find", !.t0 = now, !.first = Yesterday(now),
       !.key = <<DailyKey(now)>>])
  /\ UNCHANGED <<envVars, mqttVars, exportVars, bufferData,
                 currentMinuteStartTime, lastSavedMinute, lastProcessedSlot,
                 isProcessing, rawRows, aggs, nextId, budget, hist>>

\* GET /export, forceExport
DailyFire ==
  /\ ExportDailyDataStart
  /\ UNCHANGED svcVars

\* the timeout of scheduleDailyExport fires at midnight: exportDailyData,
\* and the 24-hour interval is stored in timers.export
MidnightFire ==
  /\ sched.midnight
  /\ now >= sched.midnightAt
  /\ sched' = [sched EXCEPT !.midnight = FALSE, !.export = TRUE]
  /\ ExportDailyDataStart
  /\ UNCHANGED <<gateway, link, calc>>

\* the 24-hour interval of the daily export
ExportIntervalFire ==
  /\ sched.export
  /\ now >= sched.midnightAt + Day
  /\ ExportDailyDataStart
  /\ UNCHANGED svcVars

\* exportDailyData resumes from findMany (lines 978-997)
EdFind ==
  /\ task["daily"].pc = "ed_find"
  /\ \E ok \in DbOutcomes :
       IF ok
         THEN LET aggregateData == UnexportedOn(task["daily"].first)
              IN  /\ IF NothingToExport(aggregateData)
                       THEN /\ JobReturn("daily")
                            /\ hist' = [hist EXCEPT !.dailyResult = "empty"]
                       ELSE /\ JobContinue("daily", [task["daily"] EXCEPT
                                 !.pc = "ed_csv", !.found = aggregateData])
                            /\ UNCHANGED hist
                  /\ NoFail
         ELSE /\ JobReturn("daily")
              /\ hist' = [hist EXCEPT !.dailyResult = "error"]
              /\ Fail
  /\ UNCHANGED <<envVars, mqttVars, exportVars, bufferData,
                 currentMinuteStartTime, lastSavedMinute, lastProcessedSlot,
                 isProcessing, rawRows, aggs, nextId>>
  /\ Settle("daily", budget'.fails < budget.fails)

\* mkdir and exportToCSV, then exportToExcel (lines 996-1008)
EdWrite ==
  /\ task["daily"].pc \in {"ed_csv", "ed_excel"}
  /\ \E ok \in DbOutcomes :
       IF ok
         THEN LET ext == IF task["daily"].pc = "ed_csv" THEN "csv" ELSE "xlsx"
                  path == ExportPath("daily", ext, task["daily"].key)
              IN  /\ files' = WriteFile(files, path)
                  /\ JobContinue("daily", [task["daily"] EXCEPT
                       !.pc = IF ext = "csv" THEN "ed_excel" ELSE "ed_tx",
                       !.paths = @ \cup {path}])
                  /\ NoFail
         ELSE JobReturn("daily") /\ Fail /\ UNCHANGED files
  /\ hist' = [hist EXCEPT !.dailyResult =
                IF task'["daily"].pc = "idle" THEN "error" ELSE @]
  /\ UNCHANGED <<envVars, mqttVars, dailyRecs, batchRecs, bufferData,
                 currentMinuteStartTime, lastSavedMinute, lastProcessedSlot,
                 isProcessing, rawRows, aggs, nextId>>
  /\ Settle("daily", budget'.fails < budget.fails)

\* temperatureAggregate.updateMany({ id in }, { isExported: true })
MarkDailyExported(S, ids) ==
  {IF a.id \in ids THEN [a EXCEPT !.isExported = TRUE] ELSE a : a \in S}

\* a purge of everything the daily export has flagged
DailyPurgeExported(S, d) == {a \in S : ~(a.date = d /\ a.isExported)}

\* the deleteMany inside the daily transaction (lines 1030-1039)
DailyPurge(S, d) ==
  {a \in S : ~(a.date = d /\ a.isExported /\ a.isSixHourExported)}

\* exportDailyData resumes from the transaction (lines 1010-1053); the
\* create fails on the unique index backup_harian(tanggal)
EdTx ==
  /\ task["daily"].pc = "ed_tx"
  /\ \E ok \in DbOutcomes :
       LET me == task["daily"]
       IN  IF ok /\ ~DailyKeyTaken(me.key)
             THEN LET marked == MarkDailyExported(aggs,
                                                  {a.id : a \in me.found})
                      kept   == DailyPurge(marked, me.first)
                  IN  /\ dailyRecs' = dailyRecs \cup
                           {[date |-> me.key, paths |-> me.paths,
                             totalRecords |-> Cardinality(me.found)]}
                      /\ aggs' = kept
                      /\ hist' = [hist EXCEPT
                           !.dailyResult = "exported",
                           !.removed = @ \cup
                             {Removal(a, "daily", me.t0) : a \in marked \ kept}]
                      /\ NoFail
             ELSE /\ UNCHANGED <<dailyRecs, aggs>>
                  /\ hist' = [hist EXCEPT !.dailyResult =
                                IF ok THEN "duplicate" ELSE "error"]
                  /\ IF ok THEN NoFail ELSE Fail
  /\ JobReturn("daily")
  /\ UNCHANGED <<envVars, mqttVars, batchRecs, files, bufferData,
                 currentMinuteStartTime, lastSavedMinute, lastProcessedSlot,
                 isProcessing, rawRows, nextId>>
  /\ Settle("daily", hist'.dailyResult # "exported")

----------------------------------------------------------------------------
(* Cleanup: cleanupOldData                                                 *)

\* deleteMany({ timestamp < 24 h ago, isProcessed: true })
CleanupRows(t) ==
  {r \in rawRows : ~(r.timestamp < t - 24 * Hour /\ r.isProcessed)}

\* a cleanup that looks at the age only
CleanupKeepsRecent(a, t) == ~(DateInstant(a.date) < t - RetentionDays * Day)

\* deleteMany({ date < 7 days ago, isExported: true,
\*              isSixHourExported: true })
CleanupKeeps(a, t) ==
  ~(/\ DateInstant(a.date) < t - RetentionDays * Day
    /\ a.isExported
    /\ a.isSixHourExported)

\* a cleanup that keeps no export record
ExportRecordDropped(r, t) == FALSE

\* sixHourExport.deleteMany({ createdAt < 30 days ago })
ExportRecordKept(r, t) == ~(r.createdAt < t - ExportRecordDays * Day)

\* the 24-hour timer: cleanupOldData up to its first deleteMany
CleanupFire ==
  /\ sched.cleanup
  /\ task["cleanup"].pc = "idle"
  /\ JobContinue("cleanup", [IdleTask EXCEPT !.pc = "cl_buffers", !.t0 = now])
  /\ UNCHANGED <<envVars, mqttVars, exportVars, bufferData,
                 currentMinuteStartTime, lastSavedMinute, lastProcessedSlot,
                 isProcessing, rawRows, aggs, nextId, budget, hist>>
  /\ UNCHANGED svcVars

\* resumes from the buffer deleteMany (lines 915-926)
ClBuffers ==
  /\ task["cleanup"].pc = "cl_buffers"
  /\ \E ok \in DbOutcomes :
       IF ok
         THEN /\ rawRows' = CleanupRows(task["cleanup"].t0)
              /\ JobContinue("cleanup", [task["cleanup"] EXCEPT
                   !.pc = "cl_aggs", !.t0 = now])
              /\ NoFail
         ELSE JobReturn("cleanup") /\ Fail /\ UNCHANGED rawRows
  /\ UNCHANGED <<envVars, mqttVars, exportVars, bufferData,
                 currentMinuteStartTime, lastSavedMinute, lastProcessedSlot,
                 isProcessing, aggs, nextId, hist>>
  /\ Settle("cleanup", budget'.fails < budget.fails)

\* resumes from the aggregate deleteMany (lines 928-940)
ClAggs ==
  /\ task["cleanup"].pc = "cl_aggs"
  /\ \E ok \in DbOutcomes :
       IF ok
         THEN LET kept == {a \in aggs : CleanupKeeps(a, task["cleanup"].t0)}
              IN  /\ aggs' = kept
                  /\ hist' = [hist EXCEPT !.removed = @ \cup
                       {Removal(a, "cleanup", task["cleanup"].t0)
                          : a \in aggs \ kept}]
                  /\ JobContinue("cleanup", [task["cleanup"] EXCEPT
                       !.pc = "cl_exports", !.t0 = now,
                       !.count = Cardinality(aggs \ kept)])
                  /\ NoFail
         ELSE JobReturn("cleanup") /\ Fail /\ UNCHANGED <<aggs, hist>>
  /\ UNCHANGED <<envVars, mqttVars, exportVars, bufferData,
                 currentMinuteStartTime, lastSavedMinute, lastProcessedSlot,
                 isProcessing, rawRows, nextId>>
  /\ Settle("cleanup", budget'.fails < budget.fails)

\* resumes from the sixHourExport deleteMany (lines 942-960)
ClExports ==
  /\ task["cleanup"].pc = "cl_exports"
  /\ \E ok \in DbOutcomes :
       IF ok
         THEN /\ batchRecs' = {r \in batchRecs :
                   ExportRecordKept(r, task["cleanup"].t0)}
              /\ NoFail
         ELSE Fail /\ UNCHANGED batchRecs
  /\ JobReturn("cleanup")
  /\ UNCHANGED <<envVars, mqttVars, dailyRecs, files, bufferData,
                 currentMinuteStartTime, lastSavedMinute, lastProcessedSlot,
                 isProcessing, rawRows, aggs, nextId, hist>>
  /\ Settle("cleanup", budget'.fails < budget.fails)

----------------------------------------------------------------------------
(* Manual triggers: processBuffer, processAggregation                      *)

\* processBuffer does not return before its create (lines 405-418)
ProcessBufferRuns ==
  /\ ~isProcessing
  /\ Len(bufferData) > 0
  /\ lastSavedMinute # formatMinute(now)

\* processBuffer up to its create
ProcessBufferStart ==
  /\ task["flush"].pc = "idle"
  /\ ProcessBufferRuns
  /\ isProcessing' = TRUE
  /\ JobContinue("flush",
       [FlushStart("flush", now, NoDP, now) EXCEPT !.pc = "pb_create"])
  /\ UNCHANGED <<envVars, mqttVars, exportVars, bufferData,
                 currentMinuteStartTime, lastSavedMinute, lastProcessedSlot,
                 rawRows, aggs, nextId, budget, hist>>

\* forceProcessBuffer
FlushFire ==
  /\ ProcessBufferStart
  /\ UNCHANGED svcVars

\* processBuffer resumes from create (lines 428-457)
FlushCreate ==
  /\ task["flush"].pc = "pb_create"
  /\ \E ok \in DbOutcomes :
       IF ok
         THEN /\ rawRows' = rawRows \cup {ReducerRow("flush")}
              /\ nextId' = [nextId EXCEPT !.raw = @ + 1]
              /\ hist' = [hist EXCEPT !.samples = @ \cup
                   {SampleLog(nextId.raw, "flush", task["flush"].mins,
                              task["flush"].src)}]
              /\ lastSavedMinute' = formatMinute(task["flush"].t0)
              /\ bufferData' = <<>>
              /\ NoFail
         ELSE /\ Fail
              /\ UNCHANGED <<rawRows, nextId, hist, lastSavedMinute,
                             bufferData>>
  /\ isProcessing' = FALSE
  /\ JobReturn("flush")
  /\ UNCHANGED <<envVars, mqttVars, exportVars, currentMinuteStartTime,
                 lastProcessedSlot, aggs>>
  /\ UNCHANGED svcVars

\* forceProcessAggregation: processAggregation up to its findMany
ManualAggFire ==
  /\ task["manualAgg"].pc = "idle"
  /\ lastProcessedSlot # generateTimeSlot(now)
  /\ JobContinue("manualAgg",
       [IdleTask EXCEPT !.pc = "pagg_find", !.t0 = now])
  /\ UNCHANGED <<envVars, mqttVars, exportVars, bufferData,
                 currentMinuteStartTime, lastSavedMinute, lastProcessedSlot,
                 isProcessing, rawRows, aggs, nextId, budget, hist>>
  /\ UNCHANGED svcVars

\* findMany({ timestamp: { gte: startTime, lt: endTime },
\*            isProcessed: false })
UnprocessedInRange(range) ==
  {r \in Unprocessed :
     r.timestamp >= range.startTime /\ r.timestamp < range.endTime}

\* processAggregation resumes from findMany (lines 472-491)
PaggFind ==
  /\ task["manualAgg"].pc = "pagg_find"
  /\ \E ok \in DbOutcomes :
       IF ok
         THEN LET rows == SortRows(UnprocessedInRange(
                            getSlotTimeRange(task["manualAgg"].t0)))
              IN  /\ IF rows = <<>>
                       THEN JobReturn("manualAgg")
                       ELSE JobContinue("manualAgg", [task["manualAgg"]
                              EXCEPT !.pc = "pagg_tx", !.batch = rows])
                  /\ NoFail
         ELSE JobReturn("manualAgg") /\ Fail
  /\ UNCHANGED <<envVars, mqttVars, exportVars, bufferData,
                 currentMinuteStartTime, lastSavedMinute, lastProcessedSlot,
                 isProcessing, rawRows, aggs, nextId, hist>>
  /\ UNCHANGED svcVars

\* processAggregation resumes from the transaction (lines 493-536)
PaggTx ==
  /\ task["manualAgg"].pc = "pagg_tx"
  /\ \E ok \in DbOutcomes :
       LET me  == task["manualAgg"]
           agg == NewAggregate(nextId.agg, me.t0, me.batch, "manualAgg")
       IN  IF ok /\ ~AggregateKeyTaken(agg.date, agg.timeSlot)
             THEN /\ aggs' = aggs \cup {agg}
                  /\ rawRows' = MarkRows(RowIds(me.batch))
                  /\ nextId' = [nextId EXCEPT !.agg = @ + 1]
                  /\ hist' = [hist EXCEPT
                       !.aggLog = @ \cup {agg},
                       !.txLog = @ \cup {Consumption(agg, RowIds(me.batch))}]
                  /\ lastProcessedSlot' = agg.timeSlot
                  /\ NoFail
             ELSE /\ IF ok THEN NoFail ELSE Fail
                  /\ UNCHANGED <<aggs, rawRows, nextId, hist,
                                 lastProcessedSlot>>
  /\ JobReturn("manualAgg")
  /\ UNCHANGED <<envVars, mqttVars, exportVars, bufferData,
                 currentMinuteStartTime, lastSavedMinute, isProcessing>>
  /\ UNCHANGED svcVars

----------------------------------------------------------------------------
(* SaveQueue drain: startQueueProcessor, processBatch, saveIndividual      *)

\* the rows createMany / create writes for queue entries
RECURSIVE QueueRows(_, _)
QueueRows(batch, id) ==
  IF batch = <<>> THEN {}
  ELSE {[id |-> id, temperature |-> Head(batch).temperature,
         timestamp |-> Head(batch).timestamp, isProcessed |-> FALSE]}
       \cup QueueRows(Tail(batch), id + 1)

\* the 2-second timer (part_008 lines 148-158): splice a batch, processBatch
\* up to its createMany
DrainFire ==
  /\ adapter # "plain"
  /\ sched.queue
  /\ task["drain"].pc = "idle"
  /\ ~isProcessingQueue
  /\ Len(saveQueue) > 0
  /\ budget.drains > 0
  /\ budget' = [budget EXCEPT !.drains = @ - 1]
  /\ isProcessingQueue' = TRUE
  /\ saveQueue' = SubSeq(saveQueue, QueueBatchSize + 1, Len(saveQueue))
  /\ JobContinue("drain", [IdleTask EXCEPT
       !.pc = "pbatch_create", !.batch = Take(saveQueue, QueueBatchSize)])
  /\ UNCHANGED <<envVars, exportVars, lastTemperature, lastDataTime,
                 bufferData, currentMinuteStartTime, lastSavedMinute,
                 lastProcessedSlot, isProcessing, rawRows, aggs, nextId,
                 hist>>
  /\ UNCHANGED svcVars

\* processBatch resumes from createMany (part_008 lines 184-226)
PbatchCreate ==
  /\ task["drain"].pc = "pbatch_create"
  /\ \E ok \in DbOutcomes :
       LET batch == task["drain"].batch
       IN  IF ok
             THEN /\ rawRows' = rawRows \cup QueueRows(batch, nextId.raw)
                  /\ nextId' = [nextId EXCEPT !.raw = @ + Len(batch)]
                  /\ isProcessingQueue' = FALSE
                  /\ JobReturn("drain")
                  /\ NoFail
             ELSE /\ JobContinue("drain", [task["drain"] EXCEPT
                       !.pc = "pbatch_individual"])
                  /\ Fail
                  /\ UNCHANGED <<rawRows, nextId, isProcessingQueue>>
  /\ UNCHANGED <<envVars, exportVars, lastTemperature, lastDataTime,
                 saveQueue, bufferData, currentMinuteStartTime,
                 lastSavedMinute, lastProcessedSlot, isProcessing, aggs, hist>>
  /\ UNCHANGED svcVars

\* a fallback loop that ends at the first record it cannot save
FallbackStops(batch, ok) == Len(batch) = 1 \/ ~ok

\* for (const item of batch) with the catch inside the loop (part_008 lines
\* 227-236): the loop ends after the last record, saved or not
FallbackDone(batch, ok) == Len(batch) = 1

\* one saveIndividual of the fallback loop (part_008 lines 226-235)
PbatchIndividual ==
  /\ task["drain"].pc = "pbatch_individual"
  /\ \E ok \in DbOutcomes :
       LET batch == task["drain"].batch
       IN  /\ IF ok
                THEN /\ rawRows' = rawRows \cup
                          QueueRows(<<Head(batch)>>, nextId.raw)
                     /\ nextId' = [nextId EXCEPT !.raw = @ + 1]
                     /\ NoFail
                ELSE Fail /\ UNCHANGED <<rawRows, nextId>>
           /\ IF FallbackDone(batch, ok)
                THEN isProcessingQueue' = FALSE /\ JobReturn("drain")
                ELSE /\ JobContinue("drain", [task["drain"] EXCEPT
                          !.batch = Tail(batch)])
                     /\ UNCHANGED isProcessingQueue
  /\ UNCHANGED <<envVars, exportVars, lastTemperature, lastDataTime,
                 saveQueue, bufferData, currentMinuteStartTime,
                 lastSavedMinute, lastProcessedSlot, isProcessing, aggs, hist>>
  /\ UNCHANGED svcVars

----------------------------------------------------------------------------
(* The clock *)

Tick(d) ==
  /\ budget.ticks > 0
  /\ budget' = [budget EXCEPT !.ticks = @ - 1]
  /\ now' = now + d
  /\ UNCHANGED <<tz, adapter, mqttVars, exportVars, bufferData,
                 currentMinuteStartTime, lastSavedMinute, lastProcessedSlot,
                 isProcessing, rawRows, aggs, task, nextId, hist>>
  /\ UNCHANGED svcVars

----------------------------------------------------------------------------
(* calculateStats, on temperatures in hundredths of a degree               *)

\* a window left in the order of its samples
Unsorted(s) == s

\* [...temperatures].sort((a, b) => a - b)
RECURSIVE SortNumbers(_)
SortNumbers(s) ==
  IF s = <<>> THEN <<>>
  ELSE LET i == CHOOSE k \in 1..Len(s) : \A j \in 1..Len(s) : s[k] <= s[j]
       IN  <<s[i]>> \o SortNumbers(SubSeq(s, 1, i - 1) \o
                                   SubSeq(s, i + 1, Len(s)))

\* Math.round(temp * 10) / 10, in tenths of a degree
RoundedKey(v) == RoundDiv(v, 10)

\* frequency[rounded]: how many samples round to the key
Frequency(s, k) == Cardinality({i \in 1..Len(s) : RoundedKey(s[i]) = k})

\* a property name that is an array index: a whole, non-negative number
IsIndexKey(k) == k >= 0 /\ k % 10 = 0

\* the keys of `frequency` in the order of their first assignment
RECURSIVE InsertionOrder(_)
InsertionOrder(s) ==
  IF s = <<>> THEN <<>>
  ELSE LET rest == InsertionOrder(SubSeq(s, 1, Len(s) - 1))
           k    == RoundedKey(s[Len(s)])
       IN  IF k \in SeqRange(rest) THEN rest ELSE Append(rest, k)

\* Object.keys(frequency): index keys in ascending order, then the other
\* keys in the order of their first assignment
ObjectKeys(s) ==
  LET keys == InsertionOrder(s)
  IN  SortNumbers(SelectSeq(keys, IsIndexKey))
      \o SelectSeq(keys, LAMBDA k : ~IsIndexKey(k))

\* keys.reduce((a, b) => frequency[a] > frequency[b] ? a : b)
RECURSIVE ReduceMode(_, _)
ReduceMode(s, keys) ==
  IF Len(keys) = 1 THEN keys[1]
  ELSE LET a == ReduceMode(s, SubSeq(keys, 1, Len(keys) - 1))
           b == keys[Len(keys)]
       IN  IF Frequency(s, a) > Frequency(s, b) THEN a ELSE b

MinOf(S) == CHOOSE x \in S : \A y \in S : x <= y

MaxOf(S) == CHOOSE x \in S : \A y \in S : x >= y

\* calculateStats(temperatures)
calculateStats(s) ==
  IF Len(s) = 0
    THEN [mean |-> 0, median |-> 0, mode |-> 0, min |-> 0, max |-> 0]
    ELSE LET n      == Len(s)
             sorted == SortNumbers(s)
         IN  [mean   |-> RoundDiv(SumSeq(s), n),
              median |-> IF n % 2 = 0
                           THEN RoundDiv(sorted[n \div 2]
                                         + sorted[n \div 2 + 1], 2)
                           ELSE sorted[n \div 2 + 1],
              mode   |-> 10 * ReduceMode(s, ObjectKeys(s)),
              min    |-> MinOf(SeqRange(s)),
              max    |-> MaxOf(SeqRange(s))]

\* no call of calculateStats yet
NoCalc == [called |-> FALSE, temperatures |-> <<>>,
           stats |-> calculateStats(<<>>)]

\* one call of calculateStats
CalculateStats(s) ==
  /\ calc' = [called |-> TRUE, temperatures |-> s,
              stats |-> calculateStats(s)]
  /\ UNCHANGED <<coreVars, gateway, link, sched>>

----------------------------------------------------------------------------
(* Persistence gateway: db.withRetry(operation, retries), in the           *)
(* DatabaseClient of lib/database.mjs ("client") and in the two earlier    *)
(* wrappers ("wrapper", "enhanced")                                        *)

Gateways == {"client", "wrapper", "enhanced"}

RetryArgs == (0..MaxRetryArg) \cup {DefaultRetries}

IdleGateway ==
  [variant |-> "client", retries |-> DefaultRetries, pc |-> "idle",
   attempt |-> 0, calls |-> 0, failed |-> 0, succeeded |-> 0,
   result |-> "none"]

\* an attempt that ends the loop with the error
LastAttemptNever(attempt, retries) == FALSE

\* if (attempt === retries) throw error
LastAttempt(attempt, retries) == attempt = retries

\* the delay before the next attempt, in milliseconds
BackoffDelay(variant, attempt) ==
  IF variant = "enhanced"
    THEN IF 1000 * attempt * 2 < 10000 THEN 1000 * attempt * 2 ELSE 10000
    ELSE attempt * 1000

\* for (let attempt = ...; attempt <= retries; ...): the loop test, and what
\* follows the loop when it ends without a return or a throw
LoopTest(g, attempt) ==
  IF attempt <= g.retries
    THEN [g EXCEPT !.pc = IF g.variant = "enhanced" /\ attempt = 1
                            THEN "probe" ELSE "attempt",
                   !.attempt = attempt]
    ELSE [g EXCEPT !.pc = IF g.variant = "enhanced" THEN "threw"
                                                   ELSE "returned",
                   !.attempt = attempt,
                   !.result = IF g.variant = "enhanced" THEN "lastError"
                                                       ELSE "undefined"]

\* the catch block of an attempt
AttemptFailed(g, error) ==
  IF LastAttempt(g.attempt, g.retries)
    THEN [g EXCEPT !.pc = "threw", !.failed = @ + 1, !.result = error]
    ELSE [g EXCEPT !.pc = "backoff", !.failed = @ + 1]

\* a caller invokes db.withRetry(operation, retries)
WithRetry(v, n) ==
  /\ gateway.pc \in {"idle", "returned", "threw"}
  /\ budget.msgs > 0
  /\ budget' = [budget EXCEPT !.msgs = @ - 1]
  /\ LET g == [IdleGateway EXCEPT !.variant = v, !.retries = n]
     IN  gateway' = IF v = "client" THEN [g EXCEPT !.pc = "connect"]
                                    ELSE LoopTest(g, 1)
  /\ UNCHANGED <<now, tz, adapter, bufferData, currentMinuteStartTime,
                 lastSavedMinute, lastProcessedSlot, isProcessing, mqttVars,
                 rawRows, aggs, exportVars, task, nextId, hist>>
  /\ UNCHANGED <<link, sched, calc>>

\* await this.ensureConnected(): the connection is there, or connect() throws
WrConnect ==
  /\ gateway.pc = "connect"
  /\ \E ok \in BOOLEAN :
       gateway' = IF ok THEN LoopTest(gateway, 1)
                  ELSE [gateway EXCEPT !.pc = "threw",
                                       !.result = "connectError"]
  /\ UNCHANGED <<now, tz, adapter, bufferData, currentMinuteStartTime,
                 lastSavedMinute, lastProcessedSlot, isProcessing, mqttVars,
                 rawRows, aggs, exportVars, task, nextId, budget, hist>>
  /\ UNCHANGED <<link, sched, calc>>

\* the connection test of the first attempt (enhanced wrapper)
WrProbe ==
  /\ gateway.pc = "probe"
  /\ \E ok \in BOOLEAN :
       gateway' = IF ok THEN [gateway EXCEPT !.pc = "attempt"]
                  ELSE AttemptFailed(gateway, "probeError")
  /\ UNCHANGED <<now, tz, adapter, bufferData, currentMinuteStartTime,
                 lastSavedMinute, lastProcessedSlot, isProcessing, mqttVars,
                 rawRows, aggs, exportVars, task, nextId, budget, hist>>
  /\ UNCHANGED <<link, sched, calc>>

\* return await operation(client), and the catch block when it rejects
WrAttempt ==
  /\ gateway.pc = "attempt"
  /\ \E ok \in BOOLEAN :
       LET g == [gateway EXCEPT !.calls = @ + 1]
       IN  gateway' = IF ok THEN [g EXCEPT !.pc = "returned",
                                          !.succeeded = @ + 1,
                                          !.result = "value"]
                      ELSE AttemptFailed(g, "opError")
  /\ UNCHANGED <<now, tz, adapter, bufferData, currentMinuteStartTime,
                 lastSavedMinute, lastProcessedSlot, isProcessing, mqttVars,
                 rawRows, aggs, exportVars, task, nextId, budget, hist>>
  /\ UNCHANGED <<link, sched, calc>>

\* the timeout of the backoff fires: attempt++ and the loop test
WrBackoff ==
  /\ gateway.pc = "backoff"
  /\ now' = now + BackoffDelay(gateway.variant, gateway.attempt) \div 1000
  /\ gateway' = LoopTest(gateway, gateway.attempt + 1)
  /\ UNCHANGED <<tz, adapter, bufferData, currentMinuteStartTime,
                 lastSavedMinute, lastProcessedSlot, isProcessing, mqttVars,
                 rawRows, aggs, exportVars, task, nextId, budget, hist>>
  /\ UNCHANGED <<link, sched, calc>>

----------------------------------------------------------------------------
(* MQTT connection of MQTTService (services/mqttService.mjs).  The client  *)
(* is created with reconnectPeriod 5000, so it is the client that starts   *)
(* over after a close and announces it with its "reconnect" event; the     *)
(* service adds scheduleReconnect and forceReconnect on top                *)

\* the constructor has called connect(): a client exists and is connecting
NewLink ==
  [isConnected |-> FALSE, reconnectAttempts |-> 0, client |-> "connecting",
   retryTimer |-> FALSE, forceTimer |-> FALSE, status |-> "none",
   orphans |-> 0]

\* client.end() has been called on the client: it reconnects no more
Ended(l) == l.client \in {"ending", "ended"}

\* connect(): mqtt.connect creates a client that replaces this.client; a
\* replaced client that was not ended keeps its handlers and its own
\* reconnect cycle (counted in orphans, up to MaxOrphans)
Connect(l) ==
  [l EXCEPT !.client = "connecting",
            !.orphans = IF Ended(l) \/ @ = MaxOrphans THEN @ ELSE @ + 1]

\* scheduleReconnect()
ScheduleReconnect(l) ==
  IF l.reconnectAttempts >= maxReconnectAttempts
    THEN [l EXCEPT !.status = "max_retries_reached"]
    ELSE [l EXCEPT !.retryTimer = TRUE]

\* client.on("connect")
OnConnect ==
  /\ link.client = "connecting"
  /\ link' = [link EXCEPT !.client = "connected", !.isConnected = TRUE,
                          !.reconnectAttempts = 0, !.status = "connected"]
  /\ UNCHANGED <<coreVars, gateway, sched, calc>>

\* client.on("close"): the connection, or the attempt to connect, ended
OnClose ==
  /\ link.client \in {"connecting", "connected", "ending"}
  /\ link' = ScheduleReconnect(
       [link EXCEPT !.isConnected = FALSE, !.status = "disconnected",
                    !.client = IF @ = "ending" THEN "ended" ELSE "waiting"])
  /\ UNCHANGED <<coreVars, gateway, sched, calc>>

\* client.on("reconnect"): the client starts its next attempt
OnReconnect ==
  /\ link.client = "waiting"
  /\ link.reconnectAttempts < maxReconnectAttempts + MaxExtraAttempts
  /\ link' = [link EXCEPT !.client = "connecting",
                          !.reconnectAttempts = @ + 1,
                          !.status = "reconnecting"]
  /\ UNCHANGED <<coreVars, gateway, sched, calc>>

\* client.on("error")
OnError ==
  /\ link.client \in {"connecting", "connected"}
  /\ link' = [link EXCEPT !.isConnected = FALSE, !.status = "disconnected"]
  /\ UNCHANGED <<coreVars, gateway, sched, calc>>

\* client.on("offline")
OnOffline ==
  /\ link.client = "waiting"
  /\ link' = [link EXCEPT !.isConnected = FALSE, !.status = "offline"]
  /\ UNCHANGED <<coreVars, gateway, sched, calc>>

\* the timeout of scheduleReconnect fires
RetryTimerFire ==
  /\ link.retryTimer
  /\ LET l == [link EXCEPT !.retryTimer = FALSE]
     IN  link' = IF ~l.isConnected THEN Connect(l) ELSE l
  /\ UNCHANGED <<coreVars, gateway, sched, calc>>

\* forceReconnect(): reset the count, end the client, connect in a second
ForceReconnect ==
  /\ ~link.forceTimer
  /\ link' = [link EXCEPT !.reconnectAttempts = 0, !.isConnected = FALSE,
                          !.client = "ending", !.forceTimer = TRUE,
                          !.status = "disconnected"]
  /\ UNCHANGED <<coreVars, gateway, sched, calc>>

\* the timeout of forceReconnect fires
ForceTimerFire ==
  /\ link.forceTimer
  /\ link' = Connect([link EXCEPT !.forceTimer = FALSE])
  /\ UNCHANGED <<coreVars, gateway, sched, calc>>

----------------------------------------------------------------------------
(* Timers and graceful shutdown (server.mjs gracefulShutdown,              *)
(* MQTTService.disconnect, TemperatureService.cleanup)                     *)

\* the next local midnight after t
NextMidnight(t) == (LocalDay(t) + 1) * Day - tz * Hour

\* after startSchedulers and, in the adapter with a SaveQueue,
\* startQueueProcessor
RunningSched ==
  [buffer |-> TRUE, sixHourExport |-> TRUE, cleanup |-> TRUE,
   export |-> FALSE, midnight |-> TRUE, midnightAt |-> NextMidnight(now),
   queue |-> adapter # "plain", phase |-> "running", batch |-> <<>>,
   held |-> [rids |-> {}, entries |-> {}, msgs |-> 0], fails |-> 0]

\* Object.values(this.timers).forEach(clearInterval)
ClearIntervals(sc) ==
  [sc EXCEPT !.buffer = FALSE, !.sixHourExport = FALSE, !.cleanup = FALSE,
             !.export = FALSE]

\* what the buffer and the queue hold when the shutdown starts
Held ==
  [rids    |-> {bufferData[i].rid : i \in 1..Len(bufferData)},
   entries |-> {saveQueue[i] : i \in 1..Len(saveQueue)},
   msgs    |-> budget.msgs]

\* the client still delivers messages: client.end comes last in disconnect
ClientOpen == sched.phase \in {"running", "draining", "draining1"}

\* SIGTERM / SIGINT: gracefulShutdown calls mqttService.disconnect(), which
\* in the adapter with a SaveQueue first awaits processBatch(all entries)
ShutdownStart ==
  /\ sched.phase = "running"
  /\ IF adapter # "plain" /\ Len(saveQueue) > 0
       THEN /\ sched' = [sched EXCEPT !.phase = "draining",
                                      !.batch = saveQueue, !.held = Held,
                                      !.fails = budget.fails]
            /\ saveQueue' = <<>>
       ELSE /\ sched' = [sched EXCEPT !.phase = "disconnected",
                                      !.held = Held, !.fails = budget.fails]
            /\ UNCHANGED saveQueue
  /\ UNCHANGED <<envVars, exportVars, lastTemperature, lastDataTime,
                 isProcessingQueue, bufferData, currentMinuteStartTime,
                 lastSavedMinute, lastProcessedSlot, isProcessing, rawRows,
                 aggs, task, nextId, budget, hist, gateway, link,
                 calc>>

\* disconnect resumes from the createMany of processBatch
SdBatchCreate ==
  /\ sched.phase = "draining"
  /\ \E ok \in DbOutcomes :
       IF ok
         THEN /\ rawRows' = rawRows \cup QueueRows(sched.batch, nextId.raw)
              /\ nextId' = [nextId EXCEPT !.raw = @ + Len(sched.batch)]
              /\ sched' = [sched EXCEPT !.phase = "disconnected",
                                        !.batch = <<>>]
              /\ NoFail
         ELSE /\ sched' = [sched EXCEPT !.phase = "draining1"]
              /\ Fail
              /\ UNCHANGED <<rawRows, nextId>>
  /\ UNCHANGED <<envVars, exportVars, mqttVars, bufferData,
                 currentMinuteStartTime, lastSavedMinute, lastProcessedSlot,
                 isProcessing, aggs, task, hist, gateway, link,
                 calc>>

\* one saveIndividual of the fallback loop of that processBatch
SdBatchIndividual ==
  /\ sched.phase = "draining1"
  /\ \E ok \in DbOutcomes :
       IF ok
         THEN /\ rawRows' = rawRows \cup
                   QueueRows(<<Head(sched.batch)>>, nextId.raw)
              /\ nextId' = [nextId EXCEPT !.raw = @ + 1]
              /\ NoFail
         ELSE Fail /\ UNCHANGED <<rawRows, nextId>>
  /\ sched' = [sched EXCEPT
       !.batch = Tail(@),
       !.phase = IF Len(sched.batch) = 1 THEN "disconnected" ELSE @]
  /\ UNCHANGED <<envVars, exportVars, mqttVars, bufferData,
                 currentMinuteStartTime, lastSavedMinute, lastProcessedSlot,
                 isProcessing, aggs, task, hist, gateway, link,
                 calc>>

\* gracefulShutdown resumes and calls temperatureService.cleanup(): the
\* intervals are cleared and processBuffer runs up to its create
ShutdownCleanup ==
  /\ sched.phase = "disconnected"
  /\ task["flush"].pc = "idle"
  /\ sched' = [ClearIntervals(sched) EXCEPT !.phase = "cleaning"]
  /\ IF ProcessBufferRuns
       THEN ProcessBufferStart
       ELSE UNCHANGED <<coreVars>>
  /\ UNCHANGED <<gateway, link, calc>>

\* cleanup() has returned: server.close
ShutdownDone ==
  /\ sched.phase = "cleaning"
  /\ task["flush"].pc = "idle"
  /\ sched' = [sched EXCEPT !.phase = "stopped"]
  /\ UNCHANGED <<coreVars, gateway, link, calc>>

\* a message, while the client has not been ended
LiveMessage(t, p) ==
  /\ ClientOpen
  /\ MqttMessage(t, p)

----------------------------------------------------------------------------
(* Initial states: the services right after construction, on a store that  *)
(* earlier runs of the pipeline may have filled                            *)

NoHistory ==
  [samples |-> {}, aggLog |-> {}, removed |-> {}, notified |-> <<>>,
   dailyResult |-> "none", threw |-> FALSE, txLog |-> {},
   lastMsg |-> [p |-> [num |-> FALSE, v |-> 0], at |-> NoTime]]

\* k minute samples, one per minute, the last one a minute before t
StoredSamples(k, t) ==
  {[id |-> i, temperature |-> 2000 + 100 * (i % 3),
    timestamp |-> StartOfMinute(t) - (k + 1 - i) * Minute,
    isProcessed |-> FALSE] : i \in 1..k}

\* no handler is running, nothing exported or observed yet
InitHandlers ==
  /\ lastSavedMinute = NoTime
  /\ lastProcessedSlot = NoSlot
  /\ isProcessing = FALSE
  /\ lastTemperature = 0
  /\ lastDataTime = NoTime
  /\ isProcessingQueue = FALSE
  /\ task = [t \in TaskIds |-> IdleTask]
  /\ hist = NoHistory
  /\ gateway = IdleGateway
  /\ link = NewLink
  /\ calc = NoCalc

InitServices ==
  /\ InitHandlers
  /\ bufferData = <<>>
  /\ currentMinuteStartTime = NoTime
  /\ saveQueue = <<>>

\* noon of day 100 plus nine minutes
ReducerStart == 100 * 86400 + 12 * 3600 + 9 * 60

Budget(m, t, f, d) == [msgs |-> m, ticks |-> t, fails |-> f, drains |-> d]

InitStore(k) ==
  /\ rawRows = StoredSamples(k, now)
  /\ nextId = [raw |-> k + 1, agg |-> 1, reading |-> 1]
  /\ aggs = {}
  /\ dailyRecs = {}
  /\ batchRecs = {}
  /\ files = {}

\* Minute Reducer on an empty store, fed by any of the three iterations of
\* the ingestion adapter: rollover and fallback timer
InitReducer ==
  /\ InitServices
  /\ now = ReducerStart
  /\ tz = 0
  /\ adapter \in Adapters
  /\ InitStore(0)
  /\ budget = Budget(MaxReadings, MaxTicks, MaxFailures, 0)
  /\ sched = RunningSched

NextReducer ==
  \/ Tick(Minute)
  \/ \E t \in RecvTasks, p \in Payloads : MqttMessage(t, p)
  \/ TimerFire
  \/ \E t \in ChainTasks : PcmbCreate(t)
  \/ \E t \in ChainTasks : CfaFind(t)

SpecReducer == InitReducer /\ [][NextReducer]_vars

\* Minute Reducer fed by the first server script, whose handler lets readings
\* up to 1000 degrees through
DirectPayloads ==
  {[num |-> TRUE, v |-> 2500], [num |-> TRUE, v |-> 60000],
   [num |-> TRUE, v |-> 200000], [num |-> FALSE, v |-> 0]}

InitDirect ==
  /\ InitServices
  /\ now = ReducerStart
  /\ tz = 0
  /\ adapter = "plain"
  /\ InitStore(0)
  /\ budget = Budget(MaxReadings, MaxTicks, MaxFailures, 0)
  /\ sched = RunningSched

NextDirect ==
  \/ Tick(Minute)
  \/ \E t \in RecvTasks, p \in DirectPayloads : DirectMessage(t, p)
  \/ TimerFire
  \/ \E t \in ChainTasks : PcmbCreate(t)
  \/ \E t \in ChainTasks : CfaFind(t)

SpecDirect == InitDirect /\ [][NextDirect]_vars

\* Persistence gateway: a few calls of withRetry, one after the other, with
\* operations that fail or succeed at will
InitGateway ==
  /\ InitServices
  /\ now = ReducerStart
  /\ tz = 0
  /\ adapter = "plain"
  /\ InitStore(0)
  /\ budget = Budget(GatewayCalls, 0, 0, 0)
  /\ sched = RunningSched

NextGateway ==
  \/ \E v \in Gateways, n \in RetryArgs : WithRetry(v, n)
  \/ WrConnect
  \/ WrProbe
  \/ WrAttempt
  \/ WrBackoff

SpecGateway == InitGateway /\ [][NextGateway]_vars

\* MQTT connection: the broker accepts or drops the connection at will
InitLink ==
  /\ InitServices
  /\ now = ReducerStart
  /\ tz = 0
  /\ adapter = "plain"
  /\ InitStore(0)
  /\ budget = Budget(0, 0, 0, 0)
  /\ sched = RunningSched

NextLink ==
  \/ OnConnect
  \/ OnClose
  \/ OnReconnect
  \/ OnError
  \/ OnOffline
  \/ RetryTimerFire
  \/ ForceReconnect
  \/ ForceTimerFire

SpecLink == InitLink /\ [][NextLink]_vars

\* Window Aggregator: the store holds nine unconsumed minute samples, the
\* next flush completes a window
InitAggregator ==
  /\ InitServices
  /\ now = ReducerStart
  /\ tz \in TimeZones
  /\ adapter = "queue"
  /\ InitStore(requiredAggregateCount - 1)
  /\ budget = Budget(AggReadings, AggTicks, MaxFailures, 0)
  /\ sched = RunningSched

NextAggregator ==
  \/ Tick(Minute)
  \/ \E t \in RecvTasks : MqttMessage(t, [num |-> TRUE, v |-> 2500])
  \/ TimerFire
  \/ \E t \in ChainTasks : PcmbCreate(t)
  \/ \E t \in ChainTasks : CfaFind(t)
  \/ \E t \in ChainTasks : CfaLookup(t)
  \/ \E t \in ChainTasks : DuplicateDelete(t)
  \/ \E t \in ChainTasks : PaLookup(t)
  \/ \E t \in ChainTasks : PaTx(t)
  \/ \E t \in ChainTasks : CfsheCount(t)
  \/ ManualAggFire
  \/ PaggFind
  \/ PaggTx

SpecAggregator == InitAggregator /\ [][NextAggregator]_vars

\* a burst within the current minute has filled the minute buffer to one
\* below config.maxBufferSize
BurstBuffer(k, t) ==
  [i \in 1..k |-> [temperature |-> 2000 + 100 * (i % 2), timestamp |-> t,
                   minute |-> formatMinute(t), rid |-> i]]

\* the same burst has filled the SaveQueue to one below its limit while a
\* slow batch insert kept the queue processor busy
BurstQueue(k, t) ==
  [i \in 1..k |-> [temperature |-> 2000 + 100 * (i % 2), timestamp |-> t]]

InitBurst ==
  /\ InitHandlers
  /\ now = ReducerStart
  /\ tz = 0
  /\ adapter = "queue"
  /\ bufferData = BurstBuffer(maxBufferSize - 1, now)
  /\ currentMinuteStartTime = StartOfMinute(now)
  /\ saveQueue = <<>>
  /\ rawRows = {}
  /\ nextId = [raw |-> 1, agg |-> 1, reading |-> maxBufferSize]
  /\ aggs = {}
  /\ dailyRecs = {}
  /\ batchRecs = {}
  /\ files = {}
  /\ budget = Budget(BurstReadings, BurstTicks, MaxFailures, 0)
  /\ sched = RunningSched

NextBurst ==
  \/ Tick(Minute)
  \/ \E t \in RecvTasks, p \in Payloads : MqttMessage(t, p)
  \/ TimerFire
  \/ \E t \in ChainTasks : PcmbCreate(t)
  \/ \E t \in ChainTasks : CfaFind(t)

SpecBurst == InitBurst /\ [][NextBurst]_vars

\* Ingestion adapter with a SaveQueue, in both of its iterations: a burst of
\* readings within the current second has filled the queue to one below its
\* limit and the queue processor has not run yet
InitQueue ==
  /\ InitHandlers
  /\ now = ReducerStart
  /\ tz = 0
  /\ adapter \in Adapters \ {"plain"}
  /\ bufferData = BurstBuffer(SaveQueueLimit - 1, now)
  /\ currentMinuteStartTime = StartOfMinute(now)
  /\ saveQueue = BurstQueue(SaveQueueLimit - 1, now)
  /\ rawRows = {}
  /\ nextId = [raw |-> 1, agg |-> 1, reading |-> SaveQueueLimit]
  /\ aggs = {}
  /\ dailyRecs = {}
  /\ batchRecs = {}
  /\ files = {}
  /\ budget = Budget(QueueReadings, QueueTicks, MaxFailures, MaxDrains)
  /\ sched = RunningSched

NextQueue ==
  \/ Tick(1)
  \/ \E t \in RecvTasks, p \in Payloads : MqttMessage(t, p)
  \/ DrainFire
  \/ PbatchCreate
  \/ PbatchIndividual

SpecQueue == InitQueue /\ [][NextQueue]_vars

\* the ten minute samples of a window that starts at t0
WindowRows(base, t0) ==
  [i \in 1..requiredAggregateCount |->
     [id |-> base + i, temperature |-> 2000 + 100 * (i % 3),
      timestamp |-> t0 + (i - 1) * Minute, isProcessed |-> FALSE]]

\* local day of the aggregates the export jobs will meet
ExportDay == ReducerStart \div Day

\* hours east of UTC of the plant's clock (WIB)
PlantZone == CHOOSE z \in TimeZones : z > 0

\* It is 06:30 local time on the day after ExportDay.  The store holds the
\* aggregate of the 07:00 window of ExportDay and nine unconsumed samples of
\* its last window; the sensor has just come back and one reading of 06:29
\* is buffered.
ExportStore ==
  /\ InitHandlers
  /\ tz = PlantZone
  /\ adapter = "plain"
  /\ now = DateInstant(ExportDay + 1) + 6 * Hour + 30 * Minute
  /\ bufferData = <<[temperature |-> 2000, timestamp |-> now - Minute,
                     minute |-> formatMinute(now - Minute), rid |-> 1]>>
  /\ currentMinuteStartTime = StartOfMinute(now - Minute)
  /\ saveQueue = <<>>
  /\ aggs = {NewAggregate(1, DateInstant(ExportDay) + 7 * Hour,
                         WindowRows(0, DateInstant(ExportDay) + 7 * Hour),
                         "recv")}
  /\ rawRows =
       {WindowRows(requiredAggregateCount,
                   DateInstant(ExportDay) + 23 * Hour + 50 * Minute)[i]
          : i \in 1..(requiredAggregateCount - 1)}
  /\ nextId = [raw |-> 2 * requiredAggregateCount, agg |-> 2, reading |-> 2]
  /\ dailyRecs = {}
  /\ batchRecs = {}
  /\ files = {}

\* the jobs that run on their own: the stages of exportDailyData, of a forced
\* exportSixHourData and of cleanupOldData
ExportJobs ==
  \/ DailyFire
  \/ EdFind
  \/ EdWrite
  \/ EdTx
  \/ SixForce
  \/ EshdLookup("sixForce")
  \/ EshdFind("sixForce")
  \/ EshdWrite("sixForce")
  \/ EshdTx("sixForce")
  \/ CleanupFire
  \/ ClBuffers
  \/ ClAggs
  \/ ClExports

\* the window of ten samples 10, 20, 30, 20, 10, 15, 25, 20, 18, 22
SampleWindow ==
  <<1000, 2000, 3000, 2000, 1000, 1500, 2500, 2000, 1800, 2200>>

\* what one sample of the window may be replaced by: values below zero,
\* between the samples, off the tenth of a degree, above the maximum
OtherSamples ==
  {-525, -500, 0, 995, 1004, 1250, 1805, 1995, 2004, 2050, 2999, 3500}

\* windows handed to calculateStats: the sample window, the windows that
\* differ from it in one sample, and its prefixes
StatsWindows ==
  {SampleWindow}
  \cup {[SampleWindow EXCEPT ![i] = v] :
          i \in 1..Len(SampleWindow), v \in OtherSamples}
  \cup {SubSeq(SampleWindow, 1, k) : k \in 0..Len(SampleWindow)}

\* calculateStats called on the windows, nothing else runs
InitStats ==
  /\ InitServices
  /\ now = ReducerStart
  /\ tz = 0
  /\ adapter = "plain"
  /\ InitStore(0)
  /\ budget = Budget(0, 0, 0, 0)
  /\ sched = RunningSched

NextStats == \E s \in StatsWindows : CalculateStats(s)

SpecStats == InitStats /\ [][NextStats]_vars

\* Export jobs and cleanup over more than the retention time, no ingestion
InitExport ==
  /\ ExportStore
  /\ budget = Budget(0, ExportTicks, MaxFailures, 0)
  /\ sched = RunningSched

NextExport ==
  \/ Tick((RetentionDays + 1) * Day)
  \/ ExportJobs

SpecExport == InitExport /\ [][NextExport]_vars

\* Lifecycle of the aggregates within one day: the late window is aggregated
\* while the export jobs and cleanup run
InitLifecycle ==
  /\ ExportStore
  /\ budget = Budget(LifecycleReadings, 0, MaxFailures, 0)
  /\ sched = RunningSched

NextLifecycle ==
  \/ \E t \in RecvTasks : MqttMessage(t, [num |-> TRUE, v |-> 2500])
  \/ \E t \in RecvTasks : PcmbCreate(t)
  \/ \E t \in RecvTasks : CfaFind(t)
  \/ \E t \in RecvTasks : CfaLookup(t)
  \/ \E t \in RecvTasks : PaLookup(t)
  \/ \E t \in RecvTasks : PaTx(t)
  \/ \E t \in RecvTasks : CfsheCount(t)
  \/ ExportJobs

SpecLifecycle == InitLifecycle /\ [][NextLifecycle]_vars

\* the aggregates of the ten-minute windows from t0 on, n of them
WindowAggregates(base, t0, n, by) ==
  {NewAggregate(base + k, t0 + (k - 1) * requiredAggregateCount * Minute,
                WindowRows((base + k - 1) * requiredAggregateCount,
                           t0 + (k - 1) * requiredAggregateCount * Minute),
                by) : k \in 1..n}

\* It is 06:55 local time on the day after ExportDay, the last minutes in
\* which generateSixHourBatch(now) names the bucket 06-12 of ExportDay.  The
\* store holds the aggregates of that bucket: the thirty windows of 07:00 to
\* 11:50 of ExportDay, the windows of 06:00 to 06:30 of this morning and the
\* window of 06:50 made by a manual aggregation, none of them exported.
\* Nine samples of 06:40 to 06:48 wait for a tenth, and one reading of 06:54
\* is buffered.
SixHourStore ==
  /\ InitHandlers
  /\ tz = PlantZone
  /\ adapter = "plain"
  /\ now = DateInstant(ExportDay + 1) + 6 * Hour + 55 * Minute
  /\ bufferData = <<[temperature |-> 2000, timestamp |-> now - Minute,
                     minute |-> formatMinute(now - Minute), rid |-> 1]>>
  /\ currentMinuteStartTime = StartOfMinute(now - Minute)
  /\ saveQueue = <<>>
  /\ aggs =
       WindowAggregates(0, DateInstant(ExportDay) + 7 * Hour, 30, "recv")
       \cup WindowAggregates(30, DateInstant(ExportDay + 1) + 6 * Hour, 4,
                             "recv")
       \cup WindowAggregates(34, DateInstant(ExportDay + 1) + 6 * Hour
                                  + 50 * Minute, 1, "manualAgg")
  /\ rawRows =
       {WindowRows((SixHourExpectedCount - 1) * requiredAggregateCount,
                   DateInstant(ExportDay + 1) + 6 * Hour + 40 * Minute)[i]
          : i \in 1..(requiredAggregateCount - 1)}
  /\ nextId = [raw |-> SixHourExpectedCount * requiredAggregateCount,
               agg |-> SixHourExpectedCount, reading |-> 2]
  /\ dailyRecs = {}
  /\ batchRecs = {}
  /\ files = {}

\* The three callers of exportSixHourData at once: the flush that completes
\* the last window of the bucket, the 30-minute timer and the route
InitSixHour ==
  /\ SixHourStore
  /\ budget = Budget(SixHourReadings, 0, MaxFailures, 0)
  /\ sched = RunningSched

NextSixHour ==
  \/ \E t \in RecvTasks : MqttMessage(t, [num |-> TRUE, v |-> 2500])
  \/ \E t \in RecvTasks : PcmbCreate(t)
  \/ \E t \in RecvTasks : CfaFind(t)
  \/ \E t \in RecvTasks : CfaLookup(t)
  \/ \E t \in RecvTasks : PaLookup(t)
  \/ \E t \in RecvTasks : PaTx(t)
  \/ SixTimerFire
  \/ SixForce
  \/ \E t \in RecvTasks \cup {"six"} : CfsheCount(t)
  \/ \E t \in SixTasks : EshdLookup(t)
  \/ \E t \in SixTasks : EshdFind(t)
  \/ \E t \in SixTasks : EshdWrite(t)
  \/ \E t \in SixTasks : EshdTx(t)

SpecSixHour == InitSixHour /\ [][NextSixHour]_vars

\* The scheduled jobs on their own.  It is a minute before midnight; a reading
\* of 23:58 is still buffered and queued, and the store holds an aggregate of
\* the day that ends.
InitJobs ==
  /\ InitHandlers
  /\ tz = 0
  /\ adapter = "queue"
  /\ now = (ExportDay + 1) * Day - Minute
  /\ bufferData = <<[temperature |-> 2000, timestamp |-> now - Minute,
                     minute |-> formatMinute(now - Minute), rid |-> 1]>>
  /\ currentMinuteStartTime = StartOfMinute(now - Minute)
  /\ saveQueue = BurstQueue(1, now - Minute)
  /\ aggs = {NewAggregate(1, DateInstant(ExportDay) + 7 * Hour,
                         WindowRows(0, DateInstant(ExportDay) + 7 * Hour),
                         "recv")}
  /\ rawRows = {}
  /\ nextId = [raw |-> requiredAggregateCount + 1, agg |-> 2, reading |-> 2]
  /\ dailyRecs = {}
  /\ batchRecs = {}
  /\ files = {}
  /\ budget = Budget(0, JobsTicks, MaxFailures, MaxDrains)
  /\ sched = RunningSched

NextJobs ==
  \/ \E d \in {Minute, Day} : Tick(d)
  \/ TimerFire
  \/ PcmbCreate("timer")
  \/ CfaFind("timer")
  \/ SixTimerFire
  \/ CfsheCount("six")
  \/ CleanupFire
  \/ ClBuffers
  \/ ClAggs
  \/ ClExports
  \/ MidnightFire
  \/ ExportIntervalFire
  \/ EdFind
  \/ EdWrite
  \/ EdTx
  \/ DrainFire
  \/ PbatchCreate
  \/ PbatchIndividual

SpecJobs == InitJobs /\ [][NextJobs]_vars

\* Graceful shutdown: it is a minute before midnight, readings arrive and
\* are flushed, and at some point the process is told to stop
InitShutdown ==
  /\ InitServices
  /\ now = (ExportDay + 1) * Day - Minute
  /\ tz = 0
  /\ adapter \in Adapters
  /\ InitStore(0)
  /\ budget = Budget(ShutdownReadings, ShutdownTicks, MaxFailures, MaxDrains)
  /\ sched = RunningSched

NextShutdown ==
  \/ Tick(Minute)
  \/ \E t \in RecvTasks : LiveMessage(t, [num |-> TRUE, v |-> 2500])
  \/ TimerFire
  \/ \E t \in ChainTasks : PcmbCreate(t)
  \/ \E t \in ChainTasks : CfaFind(t)
  \/ DrainFire
  \/ PbatchCreate
  \/ PbatchIndividual
  \/ ShutdownStart
  \/ SdBatchCreate
  \/ SdBatchIndividual
  \/ ShutdownCleanup
  \/ FlushCreate
  \/ ShutdownDone

SpecShutdown == InitShutdown /\ [][NextShutdown]_vars

\* The timers around a shutdown: every scheduled job may fire, midnight and
\* the day after it pass
InitTimers ==
  /\ InitServices
  /\ now = (ExportDay + 1) * Day - Minute
  /\ tz = 0
  /\ adapter = "queue"
  /\ InitStore(0)
  /\ budget = Budget(TimersReadings, TimersTicks, 0, MaxDrains)
  /\ sched = RunningSched

NextTimers ==
  \/ \E d \in {Minute, Day} : Tick(d)
  \/ \E t \in RecvTasks : LiveMessage(t, [num |-> TRUE, v |-> 2500])
  \/ TimerFire
  \/ PcmbCreate("timer")
  \/ CfaFind("timer")
  \/ DrainFire
  \/ PbatchCreate
  \/ MidnightFire
  \/ ExportIntervalFire
  \/ EdFind
  \/ SixTimerFire
  \/ CfsheCount("six")
  \/ CleanupFire
  \/ ClBuffers
  \/ ClAggs
  \/ ClExports
  \/ ShutdownStart
  \/ SdBatchCreate
  \/ ShutdownCleanup
  \/ FlushCreate
  \/ ShutdownDone

SpecTimers == InitTimers /\ [][NextTimers]_vars

----------------------------------------------------------------------------
(* Properties of the Minute Reducer                                        *)

ReducerSamples == {x \in hist.samples : x.by = "reducer"}

\* C1: for every minute in which a reading was buffered, the Minute Reducer
\* creates exactly one RawSample, in every interleaving of the data-triggered
\* rollover and the fallback timer: no two created samples are built from
\* readings of the same minute.
C1_OneSamplePerMinute ==
  \A a, b \in ReducerSamples : a.mins \cap b.mins # {} => a = b

----------------------------------------------------------------------------
(* Properties of the Window Aggregator                                     *)

ChainAggregates == {a \in hist.aggLog : a.by \in ChainTasks}

\* C2: at most one WindowAggregate exists per (date, slot), and of two runs
\* of checkForAggregation/performAggregation over the same set of unconsumed
\* RawSamples only one creates an aggregate.
C2_OneAggregatePerSlot ==
  /\ \A a, b \in aggs :
       a.date = b.date /\ a.timeSlot = b.timeSlot => a = b
  /\ \A a, b \in ChainAggregates : a.consumed = b.consumed => a = b

\* a second run holds the sample set of an aggregate that exists by now and
\* has found the slot taken
C2_SecondRunRefused ==
  \E t \in ChainTasks, a \in aggs :
    /\ task[t].pc \in {"cfa_delete", "pa_delete"}
    /\ a.consumed = RowIds(task[t].batch)
    /\ a.by # t

\* C3: no RawSample is consumed by two WindowAggregates, across all
\* interleavings of checkForAggregation, performAggregation and the manual
\* processAggregation.
C3_ConsumedOnce ==
  \A a, b \in hist.aggLog : a.consumed \cap b.consumed # {} => a = b

----------------------------------------------------------------------------
(* Properties of the buffers                                               *)

\* C6: the in-memory minute buffer never holds more than
\* config.maxBufferSize entries.
C6_BufferBounded == Len(bufferData) <= maxBufferSize

\* the step is the message handler accepting a reading and calling
\* addToSaveQueue
QueueingStep ==
  /\ budget'.msgs # budget.msgs
  /\ adapter # "plain"
  /\ HandlerAccepts(hist'.lastMsg.p)

\* the reading repeats the last queued one within a second and the adapter
\* is the iteration that skips such readings
SkippedAsDuplicate(v) ==
  /\ adapter = "dedup"
  /\ Len(saveQueue) > 0
  /\ saveQueue[Len(saveQueue)] = [temperature |-> v, timestamp |-> now]

\* C7: after every addToSaveQueue call the SaveQueue holds at most 100
\* entries; an entry added to a full queue removes exactly the oldest one, so
\* the queue is the newest (up to 100) queued readings in arrival order.
C7_DropOldest ==
  /\ [](Len(saveQueue) <= SaveQueueLimit)
  /\ [][QueueingStep /\ ~SkippedAsDuplicate(hist'.lastMsg.p.v) =>
          LET e == [temperature |-> hist'.lastMsg.p.v, timestamp |-> now]
              n == Len(saveQueue)
          IN  /\ n < SaveQueueLimit => saveQueue' = Append(saveQueue, e)
              /\ n = SaveQueueLimit =>
                    /\ Len(saveQueue') = SaveQueueLimit
                    /\ saveQueue'[SaveQueueLimit] = e
                    /\ \A i \in 1..(SaveQueueLimit - 1) :
                         saveQueue'[i] = saveQueue[i + 1]]_vars

\* the queue is full, its newest entry is the last reading received and its
\* oldest one is the second entry of the initial burst: the first was dropped
C7_OldestDropped ==
  /\ Len(saveQueue) = SaveQueueLimit
  /\ hist.lastMsg.at # NoTime
  /\ saveQueue[SaveQueueLimit] =
       [temperature |-> hist.lastMsg.p.v, timestamp |-> hist.lastMsg.at]
  /\ saveQueue[1] = BurstQueue(2, ReducerStart)[2]
  /\ saveQueue[SaveQueueLimit - 2] =
       BurstQueue(SaveQueueLimit - 1, ReducerStart)[SaveQueueLimit - 1]

\* C10: for every numeric reading inside the accepted range the message
\* handler updates lastTemperature and lastDataTime, also when the Minute
\* Reducer or its persistence call fails.
C10_LastSeenUpdated ==
  (hist.lastMsg.at # NoTime /\ HandlerAccepts(hist.lastMsg.p)) =>
     /\ lastTemperature = hist.lastMsg.p.v
     /\ lastDataTime = hist.lastMsg.at

----------------------------------------------------------------------------
(* Properties of the export jobs and of cleanup                            *)

BothFlags(a) == a.isExported /\ a.isSixHourExported

PastRetention(a, t) == DateInstant(a.date) < t - RetentionDays * Day

\* every aggregate ever created is in the store or was removed by a call
\* that is on record
AllAccounted ==
  {a.id : a \in aggs} \cup {x.agg.id : x \in hist.removed}
    = 1..(nextId.agg - 1)

\* C4: cleanupOldData deletes a WindowAggregate only if both export flags
\* are true and its date is older than the 7-day retention horizon.
C4_CleanupDeletesExportedOld ==
  \A x \in hist.removed :
    x.by = "cleanup" => BothFlags(x.agg) /\ PastRetention(x.agg, x.at)

\* cleanupOldData has deleted an aggregate
C4_CleanupDeleted == \E x \in hist.removed : x.by = "cleanup"

DailyWriting == task["daily"].pc \in {"ed_csv", "ed_excel", "ed_tx"}

\* C8: exportDailyData run for a date with zero un-exported aggregates is a
\* no-op: it never reaches the file writes or the transaction, and its
\* return leaves files, DailyExport records and aggregates as they are.
C8_EmptyExportIsNoOp ==
  /\ [](DailyWriting => task["daily"].found # {})
  /\ [][(task["daily"].pc = "ed_find" /\ task'["daily"].pc = "idle") =>
          /\ files' = files
          /\ dailyRecs' = dailyRecs
          /\ aggs' = aggs]_vars

\* a run has returned because it found nothing to export
C8_EmptyRunReturned ==
  hist.dailyResult = "empty" /\ task["daily"].pc = "idle"

\* C9: a run of exportDailyData for a date that already has a DailyExport
\* record short-circuits: each of its steps ends the run, writes no file,
\* creates no record, changes no aggregate and raises no error, also when
\* new un-exported aggregates for the date have appeared (persistence calls
\* that fail on their own are left aside).
C9_RerunIsNoOp ==
  [][(/\ task["daily"].pc # "idle"
      /\ task'["daily"] # task["daily"]
      /\ budget'.fails = budget.fails
      /\ DailyKeyTaken(task["daily"].key)) =>
        /\ task'["daily"].pc = "idle"
        /\ files' = files
        /\ dailyRecs' = dailyRecs
        /\ aggs' = aggs
        /\ hist'.dailyResult \notin {"duplicate", "error"}]_vars

----------------------------------------------------------------------------
(* Properties of rejected readings                                         *)

\* the payload is not a number or lies outside -50.00 .. 150.00
Rejected(p) == ~p.num \/ p.v < HandlerMinTemp \/ p.v > HandlerMaxTemp

\* the step is the message handler receiving a payload
MessageStep == budget'.msgs # budget.msgs

\* C11: a rejected reading has no side effect: lastTemperature,
\* lastDataTime, the SaveQueue, the minute buffer and the minute boundary are
\* unchanged, and nothing is forwarded or persisted.
C11_RejectedHasNoEffect ==
  [][(MessageStep /\ Rejected(hist'.lastMsg.p)) =>
       /\ lastTemperature' = lastTemperature
       /\ lastDataTime' = lastDataTime
       /\ saveQueue' = saveQueue
       /\ bufferData' = bufferData
       /\ currentMinuteStartTime' = currentMinuteStartTime
       /\ task' = task
       /\ rawRows' = rawRows]_vars

\* the last payload handled was rejected and an earlier accepted reading is
\* still the last value
C11_RejectedSeen ==
  /\ hist.lastMsg.at # NoTime
  /\ Rejected(hist.lastMsg.p)
  /\ lastTemperature # 0
  /\ Len(bufferData) > 0

\* C12: a malformed or out-of-range reading is never raised as an error past
\* the component that detects it: receiveTemperatureData does not throw to
\* its caller for such a value
C12_InvalidNeverThrown == ~hist.threw

\* C13: every WindowAggregate's sampleCount equals the number of RawSamples
\* consumed (deleted or flagged processed) in the transaction that created
\* it, in performAggregation and in processAggregation
C13_SampleCountIsConsumed ==
  \A c \in hist.txLog : c.sampleCount = Cardinality(c.matched)

\* C14: db.withRetry(op, N) invokes op at most N times (default 3), stops at
\* the first success and returns that result, and propagates op's error only
\* after N consecutive failed attempts; it never swallows the final error
\* and never invokes op again after a success
C14_RetryPolicy ==
  /\ gateway.calls <= gateway.retries
  /\ gateway.succeeded > 0 =>
       /\ gateway.succeeded = 1
       /\ gateway.pc = "returned"
       /\ gateway.result = "value"
  /\ gateway.result = "opError" =>
       /\ gateway.pc = "threw"
       /\ gateway.failed = gateway.retries
  /\ (gateway.retries > 0 /\ gateway.failed >= gateway.retries) =>
       /\ gateway.pc = "threw"
       /\ gateway.result \in {"opError", "probeError"}

\* a call with the default number of attempts has failed three times and
\* thrown the operation's error
C14_Exhausted ==
  /\ gateway.retries = DefaultRetries
  /\ gateway.calls = DefaultRetries
  /\ gateway.pc = "threw"
  /\ gateway.result = "opError"

\* a connection attempt starts: the client of connect() or the client itself
ConnectionAttempt == link.client # "connecting" /\ link'.client = "connecting"

\* C15: once the reconnect attempt count has reached maxReconnectAttempts
\* (and that attempt has failed too) no further connection attempt is made
\* and the adapter does not become Connected again until forceReconnect is
\* called
C15_MaxRetriesIsTerminal ==
  [][(link.reconnectAttempts >= maxReconnectAttempts
        /\ link.client = "waiting") =>
       \/ link'.reconnectAttempts = 0 /\ link'.forceTimer
       \/ ~ConnectionAttempt /\ ~link'.isConnected]_vars

\* a timer starts one of the scheduled jobs
ScheduledJobs == {"timer", "six", "cleanup", "daily", "drain"}

JobStarts ==
  \E t \in ScheduledJobs : task[t].pc = "idle" /\ task'[t].pc # "idle"

\* C16: after graceful shutdown has stopped the services no scheduled job is
\* started again: the minute fallback flush, the six-hour check, the cleanup
\* job, the daily export with its midnight timeout and the SaveQueue drain
C16_NoJobAfterStop ==
  [][sched.phase = "stopped" => ~JobStarts]_vars

\* every reading the buffer held went into a RawSample, every queue entry
\* into a row
HeldPersisted ==
  /\ sched.held.rids \subseteq UNION {x.src : x \in hist.samples}
  /\ \A e \in sched.held.entries :
       \E r \in rawRows :
         r.temperature = e.temperature /\ r.timestamp = e.timestamp

\* C17: when graceful shutdown completes and persistence calls succeed, the
\* minute buffer and the SaveQueue are empty and every value they held at
\* shutdown start has been persisted, whatever flushes happened earlier in
\* the same minute (looked at once no handler is suspended any more, and
\* when no message arrived during the shutdown)
C17_ShutdownDrains ==
  (/\ sched.phase = "stopped"
   /\ budget.fails = sched.fails
   /\ budget.msgs = sched.held.msgs
   /\ \A t \in TaskIds : task[t].pc = "idle") =>
     /\ bufferData = <<>>
     /\ saveQueue = <<>>
     /\ HeldPersisted

\* an export job is at one of its file writes
Writing(t) == task[t].pc \in {"ed_csv", "ed_excel", "eshd_csv", "eshd_excel"}

\* the step is a file write that fails
WriteFails ==
  /\ budget'.fails < budget.fails
  /\ \E t \in TaskIds : Writing(t) /\ task'[t] # task[t]

BothFiles(r) == Cardinality(r.paths) = 2 /\ r.paths \subseteq files

\* C18: in both export jobs the CSV and the spreadsheet are written before
\* the DailyExport/BatchExport record that references them is created: every
\* record's file paths refer to files that have been written, and a failed
\* file write creates no record, flags no aggregate and ends the run
C18_FilesBeforeRecords ==
  /\ [](/\ \A r \in dailyRecs : BothFiles(r)
        /\ \A r \in batchRecs : BothFiles(r))
  /\ [][WriteFails =>
          /\ dailyRecs' = dailyRecs
          /\ batchRecs' = batchRecs
          /\ aggs' = aggs
          /\ \A t \in TaskIds :
               (Writing(t) /\ task'[t] # task[t]) => task'[t].pc = "idle"]_vars

\* both jobs have created their record
C18_BothRecords ==
  /\ \E r \in dailyRecs : BothFiles(r)
  /\ \E r \in batchRecs : BothFiles(r)

\* a file write has failed after the first file of the run was written
C18_WriteFailed ==
  /\ budget.fails = 0
  /\ files # {}
  /\ dailyRecs = {}
  /\ batchRecs = {}
  /\ \A t \in TaskIds : task[t].pc = "idle"

\* C19: a BatchExport record is created, and aggregates are marked
\* batch-exported, only when the bucket holds at least 36 un-batch-exported
\* aggregates and the bucket's end time has passed, for every caller of
\* exportSixHourData
C19_OnlyFullBuckets ==
  \A r \in batchRecs :
    /\ r.totalRecords >= SixHourExpectedCount
    /\ r.createdAt >= getSixHourTimeRange(r.batchId).endTime

\* a caller of exportSixHourData that has written its files and is about to
\* commit the batch t names
Committing(t) == task[t].pc = "eshd_tx"

\* C20: at most one six-hour export record exists per batch id, and the
\* "sixHourExportReady" notification is emitted at most once per batch id,
\* also when the flush, the 30-minute timer and the route run
\* exportSixHourData at the same time
C20_OneExportPerBatch ==
  /\ \A r, q \in batchRecs : r.batchId = q.batchId => r = q
  /\ \A i, j \in 1..Len(hist.notified) :
       hist.notified[i] = hist.notified[j] => i = j

\* a batch has been exported and announced while two other callers are
\* about to commit the same batch
C20_Contended ==
  /\ Len(hist.notified) = 1
  /\ \E r \in batchRecs :
       Cardinality({t \in SixTasks :
                     Committing(t) /\ task[t].key = r.batchId}) = 2

----------------------------------------------------------------------------
(* Properties of the manual triggers and of the sample store               *)

\* the (date, slot) processAggregation writes its aggregate under
ManualKeyTaken ==
  AggregateKeyTaken(LocalDay(task["manualAgg"].t0),
                    generateTimeSlot(task["manualAgg"].t0))

\* C21: the manual aggregation looks the stored aggregate of its (date, slot)
\* up before creating: when processAggregation runs its creating transaction,
\* no aggregate of that (date, slot) is in the store.
C21_LookupBeforeCreate ==
  [][(task["manualAgg"].pc = "pagg_tx" /\ task'["manualAgg"].pc = "idle")
       => ~ManualKeyTaken]_vars

\* C22: every row of temperatureBuffer is a minute sample written by the
\* Minute Reducer, at most one per wall-clock minute; nothing else, the
\* SaveQueue drain in particular, inserts rows into the table the Window
\* Aggregator reads.
C22_OnlyReducerRows ==
  /\ \A r \in rawRows : \E s \in hist.samples : s.id = r.id
  /\ \A r, q \in rawRows :
       formatMinute(r.timestamp) = formatMinute(q.timestamp) => r = q

\* the rows a step inserts into temperatureBuffer
Created == {r \in rawRows' : \A q \in rawRows : q.id # r.id}

\* the unconsumed rows a step deletes or marks as processed
Consumed ==
  {r \in Unprocessed : \A q \in rawRows' : q.id = r.id => q.isProcessed}

\* a step that commits the transaction of an aggregation
AggregationCommits == hist'.txLog # hist.txLog

\* C23: RawSamples are created with non-decreasing timestamps and consumed
\* strictly in timestamp order: no created row is older than a stored one,
\* and when an aggregation consumes rows, no unconsumed row older than a
\* consumed one stays in the store.
C23_TimestampOrder ==
  [][/\ \A r \in Created : \A q \in rawRows : q.timestamp <= r.timestamp
     /\ AggregationCommits =>
          \A r \in Consumed : \A q \in rawRows' :
            ~q.isProcessed => q.timestamp >= r.timestamp]_vars

----------------------------------------------------------------------------
(* Properties of calculateStats                                            *)

\* C25: calculateStats on the window 10, 20, 30, 20, 10, 15, 25, 20, 18, 22
\* returns mean 19, median 20, min 10, max 30 and mode 20.
C25_SampleWindowStats ==
  (calc.called /\ calc.temperatures = SampleWindow) =>
    calc.stats = [mean |-> 1900, median |-> 2000, mode |-> 2000,
                  min |-> 1000, max |-> 3000]

\* calculateStats has returned for the sample window
C25_SampleWindowDone == calc.called /\ calc.temperatures = SampleWindow

----------------------------------------------------------------------------
(* Properties of the scheduled jobs                                        *)

\* a persistence call has failed after its retries
CallFails == budget'.fails < budget.fails

\* the position of a job that has just been started
FreshRun ==
  [timer |-> "pcmb_create", six |-> "cfshe_count", cleanup |-> "cl_buffers",
   daily |-> "ed_find", drain |-> "pbatch_create"]

\* C24: a scheduled job whose persistence call fails after its retries is
\* caught at the job's boundary: the process goes on with every timer armed,
\* no sibling job is disturbed or locked out, and the failed job is idle
\* again with its guard released, or still running its fallback, so that it
\* runs again at its next tick.
C24_FailureStaysInJob ==
  /\ [](task["drain"].pc = "idle" => ~isProcessingQueue)
  /\ [][CallFails =>
          /\ sched' = sched
          /\ sched'.phase = "running"
          /\ isProcessing' = isProcessing
          /\ \E t \in TimerJobs :
               /\ task[t].pc # "idle"
               /\ \A u \in TaskIds \ {t} : task'[u] = task[u]
               /\ \/ task'[t].pc = "idle"
                  \/ t = "drain" /\ task'[t].pc = "pbatch_individual"]_vars

\* after a call of one of the jobs has failed, all five jobs have been
\* started and are at their first persistence call
C24_AllStartedAfterFailure ==
  /\ budget.fails < MaxFailures
  /\ \A t \in TimerJobs : task[t].pc = FreshRun[t]

----------------------------------------------------------------------------
(* Properties of concurrent runs of the Minute Reducer                     *)

\* the handlers suspended inside processCurrentMinuteBuffer or processBuffer
Flushing == {t \in TaskIds : task[t].pc \in {"pcmb_create", "pb_create"}}

\* the handlers suspended inside checkForAggregation, performAggregation or
\* processAggregation
Aggregating ==
  {t \in TaskIds : task[t].pc \in {"cfa_find", "cfa_lookup", "cfa_delete",
                                   "pa_lookup", "pa_delete", "pa_tx",
                                   "pagg_find", "pagg_tx"}}

\* C26: at most one flush of the Minute Reducer and at most one run of the
\* Window Aggregator logic is in progress at any time: a timer-fired or
\* manual run skips while a data-triggered run is suspended at a persistence
\* call.
C26_OneRunAtATime ==
  /\ Cardinality(Flushing) <= 1
  /\ Cardinality(Aggregating) <= 1

\* the readings held in a buffer
ReadingIds(buf) == {buf[i].rid : i \in 1..Len(buf)}

\* no persistence call has failed so far
PersistenceSucceeds == budget.fails = MaxFailures

\* C27: when persistence succeeds, every accepted reading contributes to the
\* mean of exactly one RawSample: no reading is averaged into two samples,
\* and a reading leaves the minute buffer only when a sample built from it is
\* stored.
C27_EveryReadingOnce ==
  /\ [](PersistenceSucceeds =>
          \A a, b \in hist.samples : a.src \cap b.src # {} => a = b)
  /\ [][PersistenceSucceeds' =>
          \A r \in ReadingIds(bufferData) \ ReadingIds(bufferData') :
            \E s \in hist'.samples : r \in s.src]_vars

\* C28: the timestamp of a row written by the Minute Reducer is the start of
\* the minute in which the readings it averages were received, whether the
\* flush was started by an incoming reading or by the buffer timer
C28_StampedWithOwnMinute ==
  \A s \in hist.samples : \A r \in rawRows :
    (s.by = "reducer" /\ r.id = s.id) =>
      /\ r.timestamp = StartOfMinute(r.timestamp)
      /\ s.mins = {formatMinute(r.timestamp)}

\* a flush started by an incoming reading ends with a failed create
RolloverFails(t) ==
  /\ task[t].pc = "pcmb_create"
  /\ task'[t].pc = "idle"
  /\ budget'.fails < budget.fails

BufferedMinutes(buf) == {buf[i].minute : i \in 1..Len(buf)}

\* C29: when the flush of a rollover fails, the readings of the previous
\* minute stay buffered under their own minute and the incoming reading is
\* buffered as well; no stored sample averages readings of two minutes
C29_FailedRolloverKeepsData ==
  /\ [][\A t \in RecvTasks : RolloverFails(t) =>
          /\ task[t].src \subseteq ReadingIds(bufferData')
          /\ task[t].dp.rid \in ReadingIds(bufferData')
          /\ formatMinute(currentMinuteStartTime') \in task[t].mins]_vars
  /\ [](\A s \in hist.samples : Cardinality(s.mins) <= 1)

----------------------------------------------------------------------------
(* The fallback timer in a quiet period                                    *)

\* the buffer timer fires every second (startSchedulers lines 45-49) and an
\* awaited persistence call settles; the calls that fail are bounded by the
\* budget, so persistence eventually succeeds
QuietReadings == 2   \* messages before the quiet period
QuietTicks    == 2   \* clock advances in the quiet-period specification

\* Minute Reducer on an empty store, fed by the adapter that only forwards
InitQuiet ==
  /\ InitServices
  /\ now = ReducerStart
  /\ tz = 0
  /\ adapter = "plain"
  /\ InitStore(0)
  /\ budget = Budget(QuietReadings, QuietTicks, MaxFailures, 0)
  /\ sched = RunningSched

SpecReducerFair ==
  /\ InitQuiet
  /\ [][NextReducer]_vars
  /\ WF_vars(TimerFire)
  /\ WF_vars(PcmbCreate("timer"))
  /\ WF_vars(CfaFind("timer"))

\* no reading will arrive any more and no flush is in progress
QuietPeriod ==
  /\ budget.msgs = 0
  /\ \A t \in ChainTasks : task[t].pc = "idle"

\* the readings B are buffered under the minute that starts at m, and the
\* wall clock has left that minute
StaleBuffer(B, m) ==
  /\ QuietPeriod
  /\ B # {}
  /\ ReadingIds(bufferData) = B
  /\ currentMinuteStartTime = m
  /\ formatMinute(now) # formatMinute(m)

\* a row stamped m that averages exactly the readings B has been stored and
\* the buffer is empty
FlushedAs(B, m) ==
  /\ bufferData = <<>>
  /\ \E s \in hist.samples : \E r \in rawRows :
       s.id = r.id /\ s.src = B /\ r.timestamp = m

ReducerMinutes == {ReducerStart + k * Minute : k \in 0..QuietTicks}

\* C30: in a quiet period a non-empty buffer whose minute has passed is
\* eventually stored as one sample of that minute and the buffer is emptied,
\* given that the timer keeps firing and persistence eventually succeeds
C30_StaleBufferFlushed ==
  \A B \in SUBSET (1..QuietReadings) : \A m \in ReducerMinutes :
    StaleBuffer(B, m) ~> FlushedAs(B, m)

\* the timer has stored the buffer after an earlier call had failed
C30_TimerStoredAfterFailure ==
  /\ budget.msgs = 0
  /\ budget.fails < MaxFailures
  /\ \A t \in RecvTasks : task[t].pc = "idle"
  /\ task["timer"].pc = "cfa_find"
  /\ task["timer"].n > 0

----------------------------------------------------------------------------
(* Properties of the flush paths and of the export jobs                    *)

\* the samples a step stores through a flush of the minute buffer
FlushedSamples ==
  {s \in hist'.samples \ hist.samples : s.by \in {"reducer", "flush"}}

\* C31: a flush that stores a sample goes on to the trigger check of the
\* Window Aggregator before it returns, in processCurrentMinuteBuffer and
\* in processBuffer alike
C31_FlushThenTriggerCheck ==
  [][FlushedSamples # {} =>
       \E t \in TaskIds :
         /\ task[t].pc \in {"pcmb_create", "pb_create"}
         /\ task'[t].pc = "cfa_find"]_vars

BucketTicks == 2   \* clock advances after the bucket has filled

\* It is 05:59 local time on the day after ExportDay.  The store holds the
\* thirty-six aggregates of the windows of 00:00 to 05:50 of this morning,
\* none of them exported; nothing is buffered and no call fails.
InitFullBucket ==
  /\ InitHandlers
  /\ tz \in TimeZones
  /\ adapter = "plain"
  /\ now = DateInstant(ExportDay + 1) + 5 * Hour + 59 * Minute
  /\ bufferData = <<>>
  /\ currentMinuteStartTime = NoTime
  /\ saveQueue = <<>>
  /\ aggs = WindowAggregates(0, DateInstant(ExportDay + 1),
                             SixHourExpectedCount, "recv")
  /\ rawRows = {}
  /\ nextId = [raw |-> SixHourExpectedCount * requiredAggregateCount + 1,
               agg |-> SixHourExpectedCount + 1, reading |-> 1]
  /\ dailyRecs = {}
  /\ batchRecs = {}
  /\ files = {}
  /\ budget = Budget(0, BucketTicks, 0, 0)
  /\ sched = RunningSched

NextFullBucket ==
  \/ Tick(Minute)
  \/ SixTimerFire
  \/ SixForce
  \/ CfsheCount("six")
  \/ \E t \in {"six", "sixForce"} : EshdLookup(t)
  \/ \E t \in {"six", "sixForce"} : EshdFind(t)
  \/ \E t \in {"six", "sixForce"} : EshdWrite(t)
  \/ \E t \in {"six", "sixForce"} : EshdTx(t)

\* the 30-minute check keeps firing (startSchedulers) and every awaited call
\* of its run settles
SpecFullBucket ==
  /\ InitFullBucket
  /\ [][NextFullBucket]_vars
  /\ WF_vars(SixTimerFire)
  /\ WF_vars(CfsheCount("six"))
  /\ WF_vars(EshdLookup("six"))
  /\ WF_vars(EshdFind("six"))
  /\ WF_vars(EshdWrite("six"))
  /\ WF_vars(EshdTx("six"))

Buckets ==
  {<<d, h>> : d \in {ExportDay, ExportDay + 1}, h \in {0, 6, 12, 18}}

BucketFull(b) == Cardinality(PendingInBatch(b)) >= SixHourExpectedCount

BucketExported(b) ==
  /\ \E r \in batchRecs : r.batchId = b
  /\ \A a \in aggs : a.sixHourBatch = b => a.isSixHourExported

\* C32: a six-hour bucket that holds 36 aggregates not yet batch-exported
\* eventually gets its export record and its aggregates become
\* batch-exported, given that the 30-minute check keeps firing and that
\* persistence and file writes succeed
C32_FullBucketExported ==
  \A b \in Buckets : BucketFull(b) ~> BucketExported(b)

\* the key under which exportDailyData records the export of a local day
DailyKeyOf(d) == <<IsoDay(DateInstant(d))>>

\* C33: an aggregate that is flagged daily-exported has a daily export record
\* for its date, and an aggregate that is flagged batch-exported has a
\* six-hour export record for its batch id
C33_FlagsHaveRecords ==
  \A a \in aggs :
    /\ a.isExported => \E r \in dailyRecs : r.date = DailyKeyOf(a.date)
    /\ a.isSixHourExported => \E r \in batchRecs : r.batchId = a.sixHourBatch

\* The export jobs and cleanup over the retention of the export records:
\* the clock may jump past the thirty days after which cleanup deletes a
\* six-hour export record
NextRetention ==
  \/ Tick((ExportRecordDays + 1) * Day)
  \/ ExportJobs

SpecRetention == InitExport /\ [][NextRetention]_vars

DailyFlagged(S) == {a.id : a \in {x \in S : x.isExported}}
BatchFlagged(S) == {a.id : a \in {x \in S : x.isSixHourExported}}

\* C33, amended: a flag is set in the step that creates the export record,
\* a daily-exported aggregate has a daily export record for its date, and a
\* six-hour export record leaves the store only in cleanupOldData and only
\* when it is more than thirty days old
C33_FlagsSetWithRecords ==
  /\ [](\A a \in aggs :
          a.isExported => \E r \in dailyRecs : r.date = DailyKeyOf(a.date))
  /\ [][/\ \A a \in aggs' :
             a.id \in BatchFlagged(aggs') \ BatchFlagged(aggs) =>
               \E r \in batchRecs' \ batchRecs : r.batchId = a.sixHourBatch
        /\ \A a \in aggs' :
             a.id \in DailyFlagged(aggs') \ DailyFlagged(aggs) =>
               \E r \in dailyRecs' \ dailyRecs : r.date = DailyKeyOf(a.date)
        /\ \A r \in batchRecs \ batchRecs' :
             /\ task["cleanup"].pc = "cl_exports"
             /\ r.createdAt < task["cleanup"].t0 - ExportRecordDays * Day]_vars

\* a batch-exported aggregate whose export record cleanup has deleted
C33_RecordPurged ==
  /\ batchRecs = {}
  /\ hist.notified # <<>>
  /\ \E a \in aggs : a.isSixHourExported

----------------------------------------------------------------------------
(* Properties of the SaveQueue and of the connection                       *)

\* the handler passed the reading of this step on to the Minute Reducer
Forwarded ==
  \/ nextId.reading \in ReadingIds(bufferData')
  \/ \E t \in RecvTasks : task'[t].dp.rid = nextId.reading

\* C34: an accepted reading is appended to the SaveQueue and forwarded to
\* the Minute Reducer; no reading is skipped as a duplicate, so a reading
\* equal to the one received just before it is queued as well
C34_QueuedAndForwarded ==
  [][QueueingStep =>
       LET e == [temperature |-> hist'.lastMsg.p.v, timestamp |-> now]
           n == Len(saveQueue)
       IN  /\ Len(saveQueue') = IF n < SaveQueueLimit THEN n + 1 ELSE n
           /\ saveQueue'[Len(saveQueue')] = e
           /\ n > 0 /\ n < SaveQueueLimit => saveQueue'[n] = saveQueue[n]
           /\ Forwarded]_vars

FallbackFailures == 3   \* persistence calls that fail in the fallback specification
FallbackQueued   == 12  \* entries queued when the queue processor fires

\* The queue processor meets a failing store: twelve readings of the current
\* second are queued
InitFallback ==
  /\ InitHandlers
  /\ now = ReducerStart
  /\ tz = 0
  /\ adapter = "queue"
  /\ bufferData = BurstBuffer(FallbackQueued, now)
  /\ currentMinuteStartTime = StartOfMinute(now)
  /\ saveQueue = BurstQueue(FallbackQueued, now)
  /\ rawRows = {}
  /\ nextId = [raw |-> 1, agg |-> 1, reading |-> FallbackQueued + 1]
  /\ aggs = {}
  /\ dailyRecs = {}
  /\ batchRecs = {}
  /\ files = {}
  /\ budget = Budget(0, 0, FallbackFailures, MaxDrains)
  /\ sched = RunningSched

NextFallback ==
  \/ DrainFire
  \/ PbatchCreate
  \/ PbatchIndividual

SpecFallback == InitFallback /\ [][NextFallback]_vars

\* the rows the step adds for the queue entry e
StoredFor(e) ==
  {r \in rawRows' \ rawRows :
     r.temperature = e.temperature /\ r.timestamp = e.timestamp}

\* C35: when the bulk insert of a batch fails, every record of the batch is
\* saved individually in turn; a record leaves the batch unsaved only when
\* its own save failed, a failed save does not end the loop, and the run of
\* the queue processor ends normally after the last record
C35_FallbackPerRecord ==
  [][LET me    == task["drain"]
         after == task'["drain"]
     IN  /\ (me.pc = "pbatch_create" /\ CallFails) =>
               after.pc = "pbatch_individual" /\ after.batch = me.batch
         /\ me.pc = "pbatch_individual" =>
               /\ CallFails \/ StoredFor(Head(me.batch)) # {}
               /\ Len(me.batch) > 1 =>
                     /\ after.pc = "pbatch_individual"
                     /\ after.batch = Tail(me.batch)
               /\ Len(me.batch) = 1 =>
                     /\ after.pc = "idle"
                     /\ ~isProcessingQueue'
               /\ sched' = sched]_vars

\* the fallback loop has gone on after a record it could not save
C35_ContinuedAfterFailure ==
  /\ task["drain"].pc = "pbatch_individual"
  /\ budget.fails = FallbackFailures - 2
  /\ Len(task["drain"].batch) < QueueBatchSize - 1
  /\ Cardinality(rawRows) = QueueBatchSize - Len(task["drain"].batch) - 1

\* the persists of SaveQueue batches that have been started and not ended
BatchesInFlight ==
  {t \in {"drain"} : task[t].pc # "idle"}
  \cup {p \in {"disconnect"} : sched.phase \in {"draining", "draining1"}}

\* the step takes a batch off the SaveQueue
TakesBatch(b) == b # <<>> /\ saveQueue = b \o saveQueue'

\* C36: the SaveQueue is drained from its head in batches of at most ten
\* entries and at most one batch is being persisted at any time, the drain
\* of disconnect() included
C36_OneBatchInFlight ==
  /\ [](Cardinality(BatchesInFlight) <= 1)
  /\ [](/\ Len(task["drain"].batch) <= QueueBatchSize
        /\ Len(sched.batch) <= QueueBatchSize)
  /\ [][Len(saveQueue') < Len(saveQueue) =>
          \/ TakesBatch(task'["drain"].batch)
          \/ TakesBatch(sched'.batch)
          \/ MessageStep]_vars

\* C37: at most one MQTT client with registered handlers is live: connect()
\* never replaces a client that has not been ended, whether it is called by
\* the timeout of scheduleReconnect or by the timeout of forceReconnect
C37_OneLiveClient == link.orphans = 0

----------------------------------------------------------------------------
(* Properties of calculateStats and generateTimeSlot                       *)

\* the most frequent rounded value of s, the first one in s among equals
FirstMostFrequent(s) ==
  LET keys == InsertionOrder(s)
      top  == MaxOf({Frequency(s, keys[i]) : i \in 1..Len(keys)})
      i    == MinOf({j \in 1..Len(keys) : Frequency(s, keys[j]) = top})
  IN  keys[i]

\* C38: the mode returned by calculateStats is the most frequent value after
\* rounding to one decimal and, among values of equal frequency, the one
\* that occurs first in the input
C38_ModeFirstTieWins ==
  (calc.called /\ calc.temperatures # <<>>) =>
     calc.stats.mode = 10 * FirstMostFrequent(calc.temperatures)

\* The window of ten stored samples may start at any minute of ExportDay,
\* in either time zone; a reading of the eleventh minute is buffered and the
\* clock has just left that minute, so the buffer timer flushes it and the
\* trigger check aggregates the window.  No call fails.
InitSlots ==
  /\ InitHandlers
  /\ tz \in TimeZones
  /\ adapter = "plain"
  /\ \E h \in 0..23, m \in 0..59 :
       now = DateInstant(ExportDay) + h * Hour
             + (m + requiredAggregateCount + 1) * Minute
  /\ bufferData = <<[temperature |-> 2000, timestamp |-> now - Minute,
                     minute |-> formatMinute(now - Minute), rid |-> 1]>>
  /\ currentMinuteStartTime = StartOfMinute(now - Minute)
  /\ saveQueue = <<>>
  /\ rawRows = SeqRange(WindowRows(0, now - (requiredAggregateCount + 1)
                                           * Minute))
  /\ nextId = [raw |-> requiredAggregateCount + 1, agg |-> 1, reading |-> 2]
  /\ aggs = {}
  /\ dailyRecs = {}
  /\ batchRecs = {}
  /\ files = {}
  /\ budget = Budget(0, 0, 0, 0)
  /\ sched = RunningSched

NextSlots ==
  \/ TimerFire
  \/ PcmbCreate("timer")
  \/ CfaFind("timer")
  \/ CfaLookup("timer")
  \/ PaLookup("timer")
  \/ PaTx("timer")
  \/ CfsheCount("timer")

SpecSlots == InitSlots /\ [][NextSlots]_vars

\* minutes since local midnight
MinuteOfDay(t) == (Local(t) \div Minute) % (24 * 60)

\* the timestamp of the oldest of the stored samples with the given ids
OldestOf(ids) ==
  LET S == {r \in rawRows : r.id \in ids}
  IN  (CHOOSE r \in S : \A q \in S : r.timestamp <= q.timestamp).timestamp

\* C39: the slot of a new aggregate is the ten-minute bucket of the hour that
\* contains its oldest sample: it starts on a multiple of ten minutes not
\* after the sample and less than ten minutes before it, and its end label
\* is ten minutes later, carried into the next hour and past midnight; the
\* date of the aggregate is the calendar date of that sample
C39_SlotContainsOldest ==
  [][\A a \in aggs' \ aggs :
       LET first == OldestOf(a.consumed)
           from  == a.timeSlot[1] * 60 + a.timeSlot[2]
           to    == a.timeSlot[3] * 60 + a.timeSlot[4]
       IN  /\ a.timeSlot[1] \in 0..23 /\ a.timeSlot[3] \in 0..23
           /\ a.timeSlot[2] \in {0, 10, 20, 30, 40, 50}
           /\ a.timeSlot[4] \in {0, 10, 20, 30, 40, 50}
           /\ from <= MinuteOfDay(first)
           /\ MinuteOfDay(first) < from + 10
           /\ to = (from + 10) % (24 * 60)
           /\ a.date = LocalDay(first)]_vars

\* the window of 23:50 has been aggregated: its slot ends at 00:00
C39_WrappedPastMidnight ==
  \E a \in aggs : a.timeSlot = <<23, 50, 0, 0>> /\ a.sampleCount = 10

====
